---- MODULE Spec2Model ----
(***************************************************************************)
(* Model of the M5Stack NAS monitor client agent:                          *)
(*   m5nas_monitor/serial_client.py  (SerialClient)                        *)
(*   m5nas_monitor/daemon.py         (NASMonitorDaemon)                    *)
(*                                                                         *)
(* Time is kept relative: the model does not store time.time() itself but  *)
(* the two differences the code computes from it, saturated at the         *)
(* configured interval (the code only compares them with the interval).    *)
(***************************************************************************)
EXTENDS Integers, Sequences, FiniteSets, TLC

(* ----------------------------- bounds --------------------------------- *)

\* config.update_interval, in clock units (scaled down from 30 s)
update_interval == 2

\* longest pool sequence a collection yields
MaxPools == 2

PoolNames == {"tank", "md0"}

\* the daemon's own control flow, and a second caller of the SerialClient
Paths == {"main", "aux"}

(* ----------------------------- helpers -------------------------------- *)

Min(a, b) == IF a < b THEN a ELSE b

RECURSIVE SeqsUpTo(_, _)
SeqsUpTo(S, n) ==
    IF n = 0 THEN {<<>>}
    ELSE LET shorter == SeqsUpTo(S, n - 1)
         IN  shorter \cup {Append(s, x) : s \in shorter, x \in S}

PoolSeqs == SeqsUpTo(PoolNames, MaxPools)

(* --------------------------- protocol lines --------------------------- *)

UpdateCmd == [kind |-> "UPDATE", name |-> ""]

NetworkCmd == [kind |-> "NETWORK", name |-> ""]

ResetCmd == [kind |-> "POOL:RESET", name |-> ""]

PoolCmd(n) == [kind |-> "POOL", name |-> n]

NoCmd == [kind |-> "", name |-> ""]

Commands == {UpdateCmd, NetworkCmd, ResetCmd} \cup {PoolCmd(n) : n \in PoolNames \cup {"test-pool"}}

(* ------------------------------ snapshots ----------------------------- *)

SnapshotKeys == {"temperatures", "storage_state", "network", "pools"}

\* the {} that collect_all_data returns when it caught an exception
EmptyData == [keys |-> {}, pools |-> <<>>]

test_data == [keys |-> SnapshotKeys, pools |-> <<"test-pool">>]

(* ------------------------------- state -------------------------------- *)

VARIABLES
    connection,         \* SerialClient.connection
    lock,               \* SerialClient.lock: "free" or the path holding it
    op,                 \* per path: position inside a SerialClient method
    call,               \* per path: the SerialClient method being executed
    cmd,                \* per path: argument of send_command
    res,                \* per path: return value of the method
    opened_here,        \* per path: this call opened a connection completely
    tries,              \* per path: writes attempted by this call
    last_failed,        \* the latest finished send_command had its write fail
    pc,                 \* position of run() / test_connection / send_complete_update
    running,            \* NASMonitorDaemon.running (Event flag)
    since_last_update,  \* time.time() - last_update_time, saturated
    since_start,        \* time.time() - start_time, saturated
    time_since_last,    \* run(): time_since_last
    sleep_time,         \* run(): sleep_time
    wait_left,          \* remaining timeout of a blocked Event.wait
    data,               \* the snapshot handed to send_complete_update
    success,            \* send_complete_update: success
    pool_idx,           \* send_complete_update: position of the pool loop
    scu_caller,         \* who called send_complete_update: "test" or "cycle"
    attempts,           \* send_command calls made by this send_complete_update
    cycle_ok,           \* run(): success of the latest run_once
    cycles_after_stop,  \* cycles started while the flag was already cleared
    collector_ran,      \* collect_all_data was entered at least once
    snapshot_sent,      \* send_data_to_device was entered at least once
    display,            \* the display device: the pool list it shows, if watched
    fn,                 \* the collector operation that was called last
    arg,                \* what that call was given and what it observed
    ret                 \* what that call returned

clientVars == <<connection, lock, op, call, cmd, res, opened_here, tries, last_failed>>

scuVars == <<data, success, pool_idx, scu_caller, attempts>>

loopVars == <<running, since_last_update, since_start, time_since_last,
              sleep_time, wait_left, cycle_ok, cycles_after_stop, collector_ran,
              snapshot_sent>>

vars == <<connection, lock, op, call, cmd, res, opened_here, tries, last_failed,
          pc, running, since_last_update, since_start, time_since_last,
          sleep_time, wait_left, data, success, pool_idx, scu_caller, attempts,
          cycle_ok, cycles_after_stop, collector_ran, snapshot_sent,
          display, fn, arg, ret>>

collectorVars == <<fn, arg, ret>>

daemonVars == <<clientVars, pc, scuVars, loopVars, display>>

\* most pool lines the display device keeps
MaxRows == 3

\* the display device is not looked at: what it shows is not recorded
Unwatched == [watched |-> FALSE, pools |-> <<>>]

\* what the device shows after it received command c: it clears its pool
\* list on POOL:RESET and appends the pool of a POOL line
Displayed(pools, c) ==
    IF c.kind = "POOL:RESET" THEN <<>>
    ELSE IF c.kind = "POOL" /\ Len(pools) < MaxRows THEN Append(pools, c.name)
    ELSE pools

\* self.connection = None
NoConnection == [exists |-> FALSE, is_open |-> FALSE, reset |-> FALSE, tainted |-> FALSE]

\* NASMonitorDaemon.__init__ and SerialClient.__init__
Constructed ==
    /\ connection = NoConnection
    /\ lock = "free"
    /\ op = [p \in Paths |-> "idle"]
    /\ call = [p \in Paths |-> "none"]
    /\ cmd = [p \in Paths |-> NoCmd]
    /\ res = [p \in Paths |-> FALSE]
    /\ opened_here = [p \in Paths |-> FALSE]
    /\ tries = [p \in Paths |-> 0]
    /\ last_failed = FALSE
    /\ pc = "run"
    /\ running = TRUE
    /\ since_last_update = update_interval
    /\ since_start = update_interval
    /\ time_since_last = 0
    /\ sleep_time = 0
    /\ wait_left = 0
    /\ data = EmptyData
    /\ success = TRUE
    /\ pool_idx = 1
    /\ scu_caller = "test"
    /\ attempts = <<>>
    /\ cycle_ok = FALSE
    /\ cycles_after_stop = 0
    /\ collector_ran = FALSE
    /\ snapshot_sent = FALSE

\* the daemon is constructed and no collector operation is being examined
Init ==
    /\ Constructed
    /\ display = Unwatched
    /\ fn = "none"
    /\ arg = <<>>
    /\ ret = <<>>

(* ------------------- SerialClient: method entry ----------------------- *)

\* first position of each method: every method starts by taking the lock,
\* send_command through its call of is_connected
Entry(m) ==
    CASE m = "connect" -> "c_acq"
      [] m = "disconnect" -> "d_acq"
      [] m = "is_connected" -> "ic_acq"
      [] m = "send_command" -> "ic_acq"

Invoke(p, m, c) ==
    /\ op[p] = "idle"
    /\ op' = [op EXCEPT ![p] = Entry(m)]
    /\ call' = [call EXCEPT ![p] = m]
    /\ cmd' = [cmd EXCEPT ![p] = c]
    /\ opened_here' = [opened_here EXCEPT ![p] = FALSE]
    /\ tries' = [tries EXCEPT ![p] = 0]
    /\ UNCHANGED <<connection, lock, res, last_failed>>

\* the caller takes the return value; the callee's frame is gone
Returned(p) ==
    /\ op[p] = "ret"
    /\ op' = [op EXCEPT ![p] = "idle"]
    /\ call' = [call EXCEPT ![p] = "none"]
    /\ cmd' = [cmd EXCEPT ![p] = NoCmd]
    /\ res' = [res EXCEPT ![p] = FALSE]
    /\ opened_here' = [opened_here EXCEPT ![p] = FALSE]
    /\ tries' = [tries EXCEPT ![p] = 0]
    /\ UNCHANGED <<connection, lock, last_failed>>

IsOpen == connection.exists /\ connection.is_open

\* variant: an exception leaves the with block without releasing the lock
WithExit_HeldOnRaise(p, raised) == IF raised THEN p ELSE "free"

\* the end of 'with self.lock:' in path p: the lock is released, whether the
\* block returned or raised
WithExit(p, raised) == "free"

(* ------------------- SerialClient.is_connected ------------------------ *)

\* with self.lock:
IsConnAcquire(p) ==
    /\ op[p] = "ic_acq"
    /\ lock = "free"
    /\ lock' = p
    /\ op' = [op EXCEPT ![p] = "ic_body"]
    /\ UNCHANGED <<connection, call, cmd, res, opened_here, tries, last_failed>>
    /\ UNCHANGED <<pc, scuVars, loopVars>>
    /\ UNCHANGED <<collectorVars, display>>

\* return self.connection is not None and self.connection.is_open; in
\* send_command the answer selects between connect() and the write
IsConnBody(p) ==
    /\ op[p] = "ic_body"
    /\ lock = p
    /\ lock' = WithExit(p, FALSE)
    /\ IF call[p] = "is_connected"
       THEN /\ res' = [res EXCEPT ![p] = IsOpen]
            /\ op' = [op EXCEPT ![p] = "ret"]
       ELSE /\ res' = res
            /\ op' = [op EXCEPT ![p] = IF IsOpen THEN "w_acq" ELSE "c_acq"]
    /\ UNCHANGED <<connection, call, cmd, opened_here, tries, last_failed>>
    /\ UNCHANGED <<pc, scuVars, loopVars>>
    /\ UNCHANGED <<collectorVars, display>>

(* ----------------------- SerialClient.connect ------------------------- *)

ConnAcquire(p) ==
    /\ op[p] = "c_acq"
    /\ lock = "free"
    /\ lock' = p
    /\ op' = [op EXCEPT ![p] = "c_body"]
    /\ UNCHANGED <<connection, call, cmd, res, opened_here, tries, last_failed>>
    /\ UNCHANGED <<pc, scuVars, loopVars>>
    /\ UNCHANGED <<collectorVars, display>>

\* what serial.Serial(...), sleep and the two buffer resets can do
ConnectOutcomes == {"ok", "open_fails", "reset_fails"}

\* self.connection after connect's body, by outcome: a failed constructor
\* leaves the attribute as it was, a failed reset leaves the new open port
ConnectedAs(o) ==
    CASE o = "ok" -> [exists |-> TRUE, is_open |-> TRUE, reset |-> TRUE, tainted |-> FALSE]
      [] o = "reset_fails" -> [exists |-> TRUE, is_open |-> TRUE, reset |-> FALSE, tainted |-> FALSE]
      [] o = "open_fails" -> connection

\* the body of connect under the lock, the lock's release by the with
\* block and the return; inside send_command a True result goes on to the write
ConnBody(p) ==
    /\ op[p] = "c_body"
    /\ lock = p
    /\ \E o \in ConnectOutcomes :
        LET already == IsOpen
            result == already \/ o = "ok"
        IN  /\ already => o = "ok"
            /\ lock' = WithExit(p, o # "ok")
            /\ connection' = IF already THEN connection ELSE ConnectedAs(o)
            /\ opened_here' = [opened_here EXCEPT ![p] = ~already /\ o = "ok"]
            /\ IF call[p] = "connect"
               THEN /\ res' = [res EXCEPT ![p] = result]
                    /\ op' = [op EXCEPT ![p] = "ret"]
                    /\ last_failed' = last_failed
               ELSE IF result
                    THEN /\ res' = res
                         /\ op' = [op EXCEPT ![p] = "w_acq"]
                         /\ last_failed' = last_failed
                    ELSE /\ res' = [res EXCEPT ![p] = FALSE]
                         /\ op' = [op EXCEPT ![p] = "ret"]
                         /\ last_failed' = FALSE
    /\ UNCHANGED <<call, cmd, tries>>
    /\ UNCHANGED <<pc, scuVars, loopVars>>
    /\ UNCHANGED <<collectorVars, display>>

(* -------------------- SerialClient.send_command ----------------------- *)

WriteAcquire(p) ==
    /\ op[p] = "w_acq"
    /\ lock = "free"
    /\ lock' = p
    /\ op' = [op EXCEPT ![p] = "w_body"]
    /\ UNCHANGED <<connection, call, cmd, res, opened_here, tries, last_failed>>
    /\ UNCHANGED <<pc, scuVars, loopVars>>
    /\ UNCHANGED <<collectorVars, display>>

\* position after a write that raised: the except block calls disconnect()
AfterWriteError == "d_acq"

\* self.connection.write(...); self.connection.flush() under the lock.  The
\* write raises on a connection that is None or closed, and may raise on an
\* open one; the with block releases the lock either way.
WriteBody(p) ==
    /\ op[p] = "w_body"
    /\ lock = p
    /\ tries' = [tries EXCEPT ![p] = Min(tries[p] + 1, 2)]
    /\ \E ok \in BOOLEAN :
        /\ ok => IsOpen
        /\ lock' = WithExit(p, ~ok)
        /\ IF ok
           THEN /\ res' = [res EXCEPT ![p] = TRUE]
                /\ op' = [op EXCEPT ![p] = "ret"]
                /\ connection' = connection
                /\ last_failed' = FALSE
                /\ display' = IF display.watched
                              THEN [display EXCEPT !.pools = Displayed(@, cmd[p])]
                              ELSE display
           ELSE /\ res' = res
                /\ op' = [op EXCEPT ![p] = AfterWriteError]
                /\ connection' = IF connection.exists
                                 THEN [connection EXCEPT !.tainted = TRUE]
                                 ELSE connection
                /\ last_failed' = last_failed
                /\ display' = display
    /\ UNCHANGED <<call, cmd, opened_here>>
    /\ UNCHANGED <<pc, scuVars, loopVars>>
    /\ UNCHANGED collectorVars

(* ---------------------- SerialClient.disconnect ----------------------- *)

DiscAcquire(p) ==
    /\ op[p] = "d_acq"
    /\ lock = "free"
    /\ lock' = p
    /\ op' = [op EXCEPT ![p] = "d_body"]
    /\ UNCHANGED <<connection, call, cmd, res, opened_here, tries, last_failed>>
    /\ UNCHANGED <<pc, scuVars, loopVars>>
    /\ UNCHANGED <<collectorVars, display>>

\* variant: disconnect leaves the port open
Closed_Noop(c) == c

\* if self.connection and self.connection.is_open: self.connection.close()
Closed(c) == IF c.exists /\ c.is_open THEN [c EXCEPT !.is_open = FALSE] ELSE c

\* the body of disconnect; called from send_command's except block it is
\* followed by return False
DiscBody(p) ==
    /\ op[p] = "d_body"
    /\ lock = p
    /\ lock' = WithExit(p, FALSE)
    /\ connection' = Closed(connection)
    /\ op' = [op EXCEPT ![p] = "ret"]
    /\ IF call[p] = "send_command"
       THEN /\ res' = [res EXCEPT ![p] = FALSE]
            /\ last_failed' = TRUE
       ELSE /\ res' = res
            /\ last_failed' = last_failed
    /\ UNCHANGED <<call, cmd, opened_here, tries>>
    /\ UNCHANGED <<pc, scuVars, loopVars>>
    /\ UNCHANGED <<collectorVars, display>>

ClientStep(p) ==
    \/ IsConnAcquire(p)
    \/ IsConnBody(p)
    \/ ConnAcquire(p)
    \/ ConnBody(p)
    \/ WriteAcquire(p)
    \/ WriteBody(p)
    \/ DiscAcquire(p)
    \/ DiscBody(p)

(* -------------------- SerialClient.test_connection -------------------- *)

\* run() calls test_connection, which starts with connect()
RunStart ==
    /\ pc = "run"
    /\ Invoke("main", "connect", NoCmd)
    /\ pc' = "tc_connect"
    /\ UNCHANGED <<scuVars, loopVars>>
    /\ UNCHANGED <<collectorVars, display>>

\* if not self.connect(): return False; else send_complete_update(test_data)
TcConnect ==
    /\ pc = "tc_connect"
    /\ Returned("main")
    /\ IF res["main"]
       THEN /\ pc' = "scu_update"
            /\ data' = test_data
            /\ scu_caller' = "test"
            /\ success' = TRUE
            /\ attempts' = <<>>
            /\ pool_idx' = 1
       ELSE /\ pc' = "aborted"
            /\ UNCHANGED scuVars
    /\ UNCHANGED loopVars
    /\ UNCHANGED <<collectorVars, display>>

(* ------------------ SerialClient.send_complete_update ----------------- *)

\* variant: success = <result of the latest send>
SendReturn_Overwrite(next) ==
    /\ Returned("main")
    /\ success' = res["main"]
    /\ attempts' = Append(attempts, [cmd |-> cmd["main"], ok |-> res["main"]])
    /\ pc' = next
    /\ UNCHANGED <<data, scu_caller, loopVars>>
    /\ UNCHANGED <<collectorVars, display>>

\* a send_* helper returned: if not ...: success = False
SendReturn(next) ==
    /\ Returned("main")
    /\ success' = (success /\ res["main"])
    /\ attempts' = Append(attempts, [cmd |-> cmd["main"], ok |-> res["main"]])
    /\ pc' = next
    /\ UNCHANGED <<data, scu_caller, loopVars>>
    /\ UNCHANGED <<collectorVars, display>>

\* 1. temperature update
ScuUpdate ==
    /\ pc = "scu_update"
    /\ IF {"temperatures", "storage_state"} \subseteq data.keys
       THEN /\ Invoke("main", "send_command", UpdateCmd)
            /\ pc' = "scu_update_ret"
       ELSE /\ pc' = "scu_network"
            /\ UNCHANGED clientVars
    /\ UNCHANGED <<scuVars, loopVars>>
    /\ UNCHANGED <<collectorVars, display>>

ScuUpdateRet ==
    /\ pc = "scu_update_ret"
    /\ SendReturn("scu_network")
    /\ UNCHANGED pool_idx

\* variant: the network line is sent only while the update is still a success
ScuNetwork_IfStillOk ==
    /\ pc = "scu_network"
    /\ IF "network" \in data.keys /\ success
       THEN /\ Invoke("main", "send_command", NetworkCmd)
            /\ pc' = "scu_network_ret"
       ELSE /\ pc' = "scu_pools"
            /\ UNCHANGED clientVars
    /\ UNCHANGED <<scuVars, loopVars>>
    /\ UNCHANGED <<collectorVars, display>>

\* 2. network update
ScuNetwork ==
    /\ pc = "scu_network"
    /\ IF "network" \in data.keys
       THEN /\ Invoke("main", "send_command", NetworkCmd)
            /\ pc' = "scu_network_ret"
       ELSE /\ pc' = "scu_pools"
            /\ UNCHANGED clientVars
    /\ UNCHANGED <<scuVars, loopVars>>
    /\ UNCHANGED <<collectorVars, display>>

ScuNetworkRet ==
    /\ pc = "scu_network_ret"
    /\ SendReturn("scu_pools")
    /\ UNCHANGED pool_idx

\* variant: the reset is sent whenever the snapshot has a pools entry, empty
\* or not
ScuPools_AlwaysReset ==
    /\ pc = "scu_pools"
    /\ IF "pools" \in data.keys
       THEN /\ Invoke("main", "send_command", ResetCmd)
            /\ pc' = "scu_reset_ret"
       ELSE /\ pc' = "scu_return"
            /\ UNCHANGED clientVars
    /\ UNCHANGED <<scuVars, loopVars>>
    /\ UNCHANGED <<collectorVars, display>>

\* 3. if 'pools' in data and data['pools']: send_storage_reset()
ScuPools ==
    /\ pc = "scu_pools"
    /\ IF "pools" \in data.keys /\ data.pools # <<>>
       THEN /\ Invoke("main", "send_command", ResetCmd)
            /\ pc' = "scu_reset_ret"
       ELSE /\ pc' = "scu_return"
            /\ UNCHANGED clientVars
    /\ UNCHANGED <<scuVars, loopVars>>
    /\ UNCHANGED <<collectorVars, display>>

ScuResetRet ==
    /\ pc = "scu_reset_ret"
    /\ SendReturn("scu_pool")
    /\ pool_idx' = 1

\* for pool in data['pools']: send_storage_pool(...)
ScuPool ==
    /\ pc = "scu_pool"
    /\ IF pool_idx <= Len(data.pools)
       THEN /\ Invoke("main", "send_command", PoolCmd(data.pools[pool_idx]))
            /\ pc' = "scu_pool_ret"
       ELSE /\ pc' = "scu_return"
            /\ UNCHANGED clientVars
    /\ UNCHANGED <<scuVars, loopVars>>
    /\ UNCHANGED <<collectorVars, display>>

ScuPoolRet ==
    /\ pc = "scu_pool_ret"
    /\ SendReturn("scu_pool")
    /\ pool_idx' = pool_idx + 1

\* variant: run() ignores the result of test_connection
ScuReturn_IgnoreTest ==
    /\ pc = "scu_return"
    /\ IF scu_caller = "test"
       THEN /\ pc' = "loop_check"
            /\ cycle_ok' = cycle_ok
       ELSE /\ pc' = "cycle_end"
            /\ cycle_ok' = success
    /\ data' = EmptyData
    /\ success' = TRUE
    /\ pool_idx' = 1
    /\ attempts' = <<>>
    /\ UNCHANGED <<clientVars, scu_caller>>
    /\ UNCHANGED <<running, since_last_update, since_start, time_since_last,
                   sleep_time, wait_left, cycles_after_stop, collector_ran, snapshot_sent>>
    /\ UNCHANGED <<collectorVars, display>>

\* return success: to test_connection and run()'s startup check, or to
\* send_data_to_device, run_once and the loop; the call's locals are gone
ScuReturn ==
    /\ pc = "scu_return"
    /\ IF scu_caller = "test"
       THEN /\ pc' = IF success THEN "loop_check" ELSE "aborted"
            /\ cycle_ok' = cycle_ok
       ELSE /\ pc' = "cycle_end"
            /\ cycle_ok' = success
    /\ data' = EmptyData
    /\ success' = TRUE
    /\ pool_idx' = 1
    /\ attempts' = <<>>
    /\ UNCHANGED <<clientVars, scu_caller>>
    /\ UNCHANGED <<running, since_last_update, since_start, time_since_last,
                   sleep_time, wait_left, cycles_after_stop, collector_ran, snapshot_sent>>
    /\ UNCHANGED <<collectorVars, display>>

(* ------------------------- NASMonitorDaemon.run ----------------------- *)

\* variant: while True
LoopCheck_Forever ==
    /\ pc = "loop_check"
    /\ pc' = "read_time"
    /\ UNCHANGED <<clientVars, scuVars, loopVars>>
    /\ UNCHANGED <<collectorVars, display>>

\* while self.running.is_set():
LoopCheck ==
    /\ pc = "loop_check"
    /\ pc' = IF running THEN "read_time" ELSE "shutdown"
    /\ UNCHANGED <<clientVars, scuVars, loopVars>>
    /\ UNCHANGED <<collectorVars, display>>

\* current_time = time.time(); time_since_last = current_time - last_update_time;
\* if time_since_last < update_interval: sleep_time = ...
ReadTime ==
    /\ pc = "read_time"
    /\ time_since_last' = since_last_update
    /\ IF since_last_update < update_interval
       THEN /\ sleep_time' = update_interval - since_last_update
            /\ pc' = "run_wait"
       ELSE /\ sleep_time' = sleep_time
            /\ pc' = "cycle_start"
    /\ UNCHANGED <<clientVars, scuVars>>
    /\ UNCHANGED <<running, since_last_update, since_start, wait_left,
                   cycle_ok, cycles_after_stop, collector_ran, snapshot_sent>>
    /\ UNCHANGED <<collectorVars, display>>

\* self.running.wait(timeout=sleep_time) with the flag set: Event.wait
\* returns at once; then continue, which leaves both locals dead
WaitSet ==
    /\ pc = "run_wait"
    /\ running
    /\ pc' = "loop_check"
    /\ time_since_last' = 0
    /\ sleep_time' = 0
    /\ UNCHANGED <<clientVars, scuVars>>
    /\ UNCHANGED <<running, since_last_update, since_start, wait_left, cycle_ok,
                   cycles_after_stop, collector_ran, snapshot_sent>>
    /\ UNCHANGED <<collectorVars, display>>

\* self.running.wait(timeout=sleep_time) with the flag cleared: Event.wait
\* blocks until the flag is set (nothing sets it again) or the timeout expires
WaitBlock ==
    /\ pc = "run_wait"
    /\ ~running
    /\ pc' = "run_blocked"
    /\ wait_left' = sleep_time
    /\ time_since_last' = 0
    /\ sleep_time' = 0
    /\ UNCHANGED <<clientVars, scuVars>>
    /\ UNCHANGED <<running, since_last_update, since_start, cycle_ok, cycles_after_stop,
                   collector_ran, snapshot_sent>>
    /\ UNCHANGED <<collectorVars, display>>

\* the timeout of the blocked wait expired; continue
WaitTimeout ==
    /\ pc = "run_blocked"
    /\ wait_left = 0
    /\ pc' = "loop_check"
    /\ UNCHANGED <<clientVars, scuVars, loopVars>>
    /\ UNCHANGED <<collectorVars, display>>

\* cycle_count += 1 (a number that is only logged); start_time = time.time();
\* run_once().  time_since_last and the previous success are dead from here on.
CycleStart ==
    /\ pc = "cycle_start"
    /\ since_start' = 0
    /\ cycles_after_stop' = IF running THEN cycles_after_stop ELSE Min(cycles_after_stop + 1, 2)
    /\ pc' = "collect"
    /\ time_since_last' = 0
    /\ cycle_ok' = FALSE
    /\ UNCHANGED <<clientVars, scuVars>>
    /\ UNCHANGED <<running, since_last_update, sleep_time, wait_left, collector_ran,
                   snapshot_sent>>
    /\ UNCHANGED <<collectorVars, display>>

\* run_once: data = self.collect_all_data(); if not data: return False;
\* return self.send_data_to_device(data)
Collect ==
    /\ pc = "collect"
    /\ collector_ran' = TRUE
    /\ \E raised \in BOOLEAN, pools \in PoolSeqs :
        IF raised
        THEN /\ pools = <<>>
             /\ data' = EmptyData
             /\ cycle_ok' = FALSE
             /\ pc' = "cycle_end"
             /\ UNCHANGED <<success, pool_idx, scu_caller, attempts, snapshot_sent>>
        ELSE /\ data' = [keys |-> SnapshotKeys, pools |-> pools]
             /\ scu_caller' = "cycle"
             /\ success' = TRUE
             /\ attempts' = <<>>
             /\ pool_idx' = 1
             /\ snapshot_sent' = TRUE
             /\ cycle_ok' = cycle_ok
             /\ pc' = "scu_update"
    /\ UNCHANGED clientVars
    /\ UNCHANGED <<running, since_last_update, since_start, time_since_last,
                   sleep_time, wait_left, cycles_after_stop>>
    /\ UNCHANGED <<collectorVars, display>>

\* variant: if success: last_update_time = start_time
CycleEnd_OnlyOnSuccess ==
    /\ pc = "cycle_end"
    /\ since_last_update' = IF cycle_ok THEN since_start ELSE since_last_update
    /\ pc' = "pause"
    /\ UNCHANGED <<clientVars, scuVars>>
    /\ UNCHANGED <<running, since_start, time_since_last, sleep_time,
                   wait_left, cycle_ok, cycles_after_stop, collector_ran, snapshot_sent>>
    /\ UNCHANGED <<collectorVars, display>>

\* success = self.run_once(); last_update_time = start_time
CycleEnd ==
    /\ pc = "cycle_end"
    /\ since_last_update' = since_start
    /\ pc' = "pause"
    /\ UNCHANGED <<clientVars, scuVars>>
    /\ UNCHANGED <<running, since_start, time_since_last, sleep_time,
                   wait_left, cycle_ok, cycles_after_stop, collector_ran, snapshot_sent>>
    /\ UNCHANGED <<collectorVars, display>>

\* self.running.wait(timeout=0.1): returns at once with the flag set and
\* after 0.1 s, less than one clock unit, with the flag cleared
Pause ==
    /\ pc = "pause"
    /\ pc' = "loop_check"
    /\ UNCHANGED <<clientVars, scuVars, loopVars>>
    /\ UNCHANGED <<collectorVars, display>>

\* after the loop: self.serial_client.disconnect()
Shutdown ==
    /\ pc = "shutdown"
    /\ Invoke("main", "disconnect", NoCmd)
    /\ pc' = "shutdown_ret"
    /\ UNCHANGED <<scuVars, loopVars>>
    /\ UNCHANGED <<collectorVars, display>>

\* return True
Stopped ==
    /\ pc = "shutdown_ret"
    /\ Returned("main")
    /\ pc' = "stopped"
    /\ UNCHANGED <<scuVars, loopVars>>
    /\ UNCHANGED <<collectorVars, display>>

(* ---------------------------- environment ----------------------------- *)

\* _signal_handler: self.running.clear(), between any two steps of run()
SignalHandler ==
    /\ running
    /\ pc \notin {"stopped", "aborted"}
    /\ running' = FALSE
    /\ UNCHANGED <<clientVars, scuVars, pc>>
    /\ UNCHANGED <<since_last_update, since_start, time_since_last, sleep_time,
                   wait_left, cycle_ok, cycles_after_stop, collector_ran, snapshot_sent>>
    /\ UNCHANGED <<collectorVars, display>>

\* one clock unit passes
Tick ==
    /\ pc \notin {"stopped", "aborted"}
    /\ since_last_update' = Min(since_last_update + 1, update_interval)
    /\ since_start' = Min(since_start + 1, update_interval)
    /\ wait_left' = IF pc = "run_blocked" /\ wait_left > 0 THEN wait_left - 1 ELSE wait_left
    /\ UNCHANGED <<clientVars, scuVars, pc>>
    /\ UNCHANGED <<running, time_since_last, sleep_time, cycle_ok,
                   cycles_after_stop, collector_ran, snapshot_sent>>
    /\ UNCHANGED <<collectorVars, display>>

(* --------------------------- specifications --------------------------- *)

DaemonStep ==
    \/ RunStart
    \/ TcConnect
    \/ ScuUpdate
    \/ ScuUpdateRet
    \/ ScuNetwork
    \/ ScuNetworkRet
    \/ ScuPools
    \/ ScuResetRet
    \/ ScuPool
    \/ ScuPoolRet
    \/ ScuReturn
    \/ LoopCheck
    \/ ReadTime
    \/ WaitSet
    \/ WaitBlock
    \/ WaitTimeout
    \/ CycleStart
    \/ Collect
    \/ CycleEnd
    \/ Pause
    \/ Shutdown
    \/ Stopped

MainStep == DaemonStep \/ ClientStep("main")

Next == MainStep \/ SignalHandler \/ Tick

\* the daemon as it runs: one control flow, signals and the clock
Spec == Init /\ [][Next]_vars

\* the interpreter keeps executing run() and time keeps passing
FairSpec == Spec /\ WF_vars(MainStep) /\ WF_vars(Tick)

\* the daemon as it runs, with the display device watched from the start
DeviceInit ==
    /\ Constructed
    /\ display = [watched |-> TRUE, pools |-> <<>>]
    /\ fn = "none"
    /\ arg = <<>>
    /\ ret = <<>>

SpecDevice == DeviceInit /\ [][Next]_vars

(* ---------------- the SerialClient used from two paths ---------------- *)

CallConnect(p) ==
    /\ Invoke(p, "connect", NoCmd)
    /\ UNCHANGED <<pc, scuVars, loopVars>>
    /\ UNCHANGED <<collectorVars, display>>

CallDisconnect(p) ==
    /\ Invoke(p, "disconnect", NoCmd)
    /\ UNCHANGED <<pc, scuVars, loopVars>>
    /\ UNCHANGED <<collectorVars, display>>

CallIsConnected(p) ==
    /\ Invoke(p, "is_connected", NoCmd)
    /\ UNCHANGED <<pc, scuVars, loopVars>>
    /\ UNCHANGED <<collectorVars, display>>

CallSendCommand(p) ==
    /\ \E c \in {UpdateCmd, NetworkCmd} : Invoke(p, "send_command", c)
    /\ UNCHANGED <<pc, scuVars, loopVars>>
    /\ UNCHANGED <<collectorVars, display>>

CallReturn(p) ==
    /\ Returned(p)
    /\ UNCHANGED <<pc, scuVars, loopVars>>
    /\ UNCHANGED <<collectorVars, display>>

NextConc ==
    \E p \in Paths :
        \/ CallConnect(p)
        \/ CallDisconnect(p)
        \/ CallIsConnected(p)
        \/ CallSendCommand(p)
        \/ CallReturn(p)
        \/ ClientStep(p)

\* two paths calling the methods of one SerialClient in any interleaving
SpecConc == Init /\ [][NextConc]_vars

(* ------------------------ vocabulary of the claims -------------------- *)

\* the commands attempted so far by the running send_complete_update
Attempted == [i \in 1..Len(attempts) |-> attempts[i].cmd]

IsPoolFamily(c) == c.kind \in {"POOL:RESET", "POOL"}

\* the POOL:* lines a pool sequence calls for
PoolLines(pools) ==
    IF pools = <<>> THEN <<>>
    ELSE <<ResetCmd>> \o [i \in 1..Len(pools) |-> PoolCmd(pools[i])]

CountKind(k) == Cardinality({i \in 1..Len(attempts) : attempts[i].cmd.kind = k})

SomeFailed == \E i \in 1..Len(attempts) : ~attempts[i].ok

\* send_complete_update has made all its sends and is about to return
ScuDone == pc = "scu_return"

\* C1: at the end of every send_complete_update the POOL:* commands attempted
\* are none for an empty pool sequence and otherwise exactly POOL:RESET
\* followed by one POOL line per pool in input order, failed sends included
C1_PoolLines ==
    ScuDone => SelectSeq(Attempted, IsPoolFamily) = PoolLines(data.pools)

\* a call with two pools whose RESET and first POOL line both failed
C1_Witness ==
    /\ ScuDone
    /\ Len(data.pools) = 2
    /\ Len(attempts) = 5
    /\ ~attempts[3].ok
    /\ ~attempts[4].ok

\* C2: in a cycle's send_complete_update, UPDATE is attempted first, NETWORK
\* second, POOL:* only after both, and exactly one UPDATE and one NETWORK
\* have been attempted when the call ends
C2_SendOrder ==
    (scu_caller = "cycle") =>
        /\ \A i \in 1..Len(attempts) :
            /\ attempts[i].cmd.kind = "UPDATE" => i = 1
            /\ attempts[i].cmd.kind = "NETWORK" => i = 2 /\ attempts[1].cmd.kind = "UPDATE"
            /\ IsPoolFamily(attempts[i].cmd) => i > 2 /\ attempts[2].cmd.kind = "NETWORK"
        /\ ScuDone => CountKind("UPDATE") = 1 /\ CountKind("NETWORK") = 1

\* a cycle's call that ends having sent pool lines after UPDATE and NETWORK
C2_Witness ==
    /\ ScuDone
    /\ scu_caller = "cycle"
    /\ Len(attempts) = 4
    /\ attempts[4].cmd.kind = "POOL"

\* C3: when send_complete_update ends, its result is True exactly when
\* every attempted command succeeded, and every command the snapshot calls
\* for has been attempted whether or not an earlier one failed
C3_AggregateSuccess ==
    ScuDone =>
        /\ success <=> ~SomeFailed
        /\ Len(attempts) = 2 + Len(PoolLines(data.pools))
        /\ \A i \in 1..Len(attempts) : (\E j \in 1..(i - 1) : ~attempts[j].ok) =>
               attempts[i].cmd = (<<UpdateCmd, NetworkCmd>> \o PoolLines(data.pools))[i]

\* a call whose first command failed, whose later commands were attempted
\* and succeeded, and which reports failure
C3_Witness ==
    /\ ScuDone
    /\ ~success
    /\ Len(attempts) = 4
    /\ ~attempts[1].ok
    /\ attempts[2].ok
    /\ attempts[3].ok
    /\ attempts[4].ok

IdlePcs == {"pause", "loop_check", "read_time", "run_wait", "run_blocked", "cycle_start"}

\* positions of one cycle: collection, transmission, bookkeeping
ScuPcs == {"scu_update", "scu_update_ret", "scu_network", "scu_network_ret", "scu_pools",
           "scu_reset_ret", "scu_pool", "scu_pool_ret", "scu_return"}

InCycle == pc \in {"collect", "cycle_end"} \/ (pc \in ScuPcs /\ scu_caller = "cycle")

InLoop == pc \in IdlePcs \/ InCycle

Terminated == pc \in {"stopped", "aborted"}

\* C5 as stated: once the flag is cleared no cycle starts
C5_NoCycleAfterSignal ==
    [][~running => ~(pc = "cycle_start" /\ pc' = "collect")]_vars

\* C5 as amended: after a termination signal at most one more cycle starts
\* (the one whose loop-condition check preceded the signal); a cycle in
\* progress is never cut short, the loop being left only from its condition
\* check; and run() then terminates
C5_Cooperative ==
    /\ [](cycles_after_stop <= 1)
    /\ [][InCycle => (InCycle' \/ pc' = "pause")]_vars
    /\ [][(InLoop /\ pc' = "shutdown") => (pc = "loop_check" /\ ~running)]_vars
    /\ (~running ~> Terminated)

\* the loop stopped after a signal that arrived between the loop-condition
\* check and the cycle start: that one cycle ran, then the loop ended
C5_Witness ==
    /\ pc = "stopped"
    /\ ~running
    /\ cycles_after_stop = 1

\* C6: a cycle starts only with the full interval elapsed since the last
\* cycle's start; every cycle, failed or not, ends by setting the last-cycle
\* time to its own start time and going back to idle, so between cycles the
\* time since the last update is the time since the last cycle's start
C6_Interval ==
    /\ [](pc = "cycle_start" =>
            time_since_last = update_interval /\ since_last_update = update_interval)
    /\ [][(pc = "cycle_end" /\ pc' # pc) =>
            (pc' = "pause" /\ since_last_update' = since_start)]_vars
    /\ []((pc \in IdlePcs /\ collector_ran) => since_last_update = since_start)
    /\ [][(pc = "collect" /\ pc' # pc) => pc' \in {"cycle_end", "scu_update"}]_vars

\* the loop is idle after a failed cycle, part of the interval still to go
C6_Witness ==
    /\ pc = "read_time"
    /\ running
    /\ collector_ran
    /\ ~cycle_ok
    /\ since_last_update = 1

\* C7: a failed test_connection makes run() return at once, no collector
\* having run and no snapshot having been handed to the transport; once the
\* loop runs it is left only from its condition check with the flag
\* cleared, whatever the collections and transmissions did
C7_OnlyStartupIsFatal ==
    /\ [](pc = "aborted" => (~collector_ran /\ ~snapshot_sent))
    /\ [][(pc = "tc_connect" /\ op["main"] = "ret" /\ ~res["main"] /\ pc' # pc) =>
            pc' = "aborted"]_vars
    /\ [][(pc = "scu_return" /\ scu_caller = "test" /\ ~success /\ pc' # pc) =>
            pc' = "aborted"]_vars
    /\ [][(InLoop /\ ~InLoop') => (pc = "loop_check" /\ ~running /\ pc' = "shutdown")]_vars

\* run() aborted because a command of the connectivity test failed
C7_Witness ==
    /\ pc = "aborted"
    /\ connection.exists
    /\ last_failed

\* C8 as stated: when the interval wait returns while no stop has been
\* requested, the interval has elapsed since the last cycle start
C8_WaitBlocks ==
    [][(pc \in {"run_wait", "run_blocked"} /\ pc' = "loop_check" /\ running) =>
         since_last_update' = update_interval]_vars

\* C9 as stated: with a stop requested, the interval wait ends before its
\* timeout has expired
C9_WaitInterrupted ==
    [][(pc \in {"run_wait", "run_blocked"} /\ pc' = "loop_check" /\ ~running) =>
         wait_left > 0]_vars

\* C10 as stated: a send_command that holds the lock for its write, having
\* found or made the connection open, writes on an open connection
C10_WriteOnOpen ==
    \A p \in Paths : (op[p] = "w_body" /\ call[p] = "send_command") => IsOpen

(* ====================================================================== *)
(*                           the data collectors                          *)
(*   m5nas_monitor/collectors/{storage,mdadm,network,temperature}.py      *)
(*                                                                        *)
(* A text is a sequence of one-character strings, so that upper(),        *)
(* lower(), title(), strip(), split() and the prefix and suffix tests do  *)
(* to it what Python does to a str.                                       *)
(* ====================================================================== *)

(* ------------------------------ str methods --------------------------- *)

Range(s) == {s[i] : i \in 1..Len(s)}

\* each letter in lower and in upper case
letter_case ==
    { <<"a", "A">>, <<"b", "B">>, <<"c", "C">>, <<"d", "D">>, <<"e",
      "E">>, <<"f", "F">>, <<"g", "G">>, <<"h", "H">>, <<"i", "I">>,
      <<"j", "J">>, <<"k", "K">>, <<"l", "L">>, <<"m", "M">>, <<"n",
      "N">>, <<"o", "O">>, <<"p", "P">>, <<"q", "Q">>, <<"r", "R">>,
      <<"s", "S">>, <<"t", "T">>, <<"u", "U">>, <<"v", "V">>, <<"w",
      "W">>, <<"x", "X">>, <<"y", "Y">>, <<"z", "Z">> }

isalpha(c) == \E p \in letter_case : c = p[1] \/ c = p[2]

upper_ch(c) ==
    IF \E p \in letter_case : p[1] = c
    THEN (CHOOSE p \in letter_case : p[1] = c)[2]
    ELSE c

lower_ch(c) ==
    IF \E p \in letter_case : p[2] = c
    THEN (CHOOSE p \in letter_case : p[2] = c)[1]
    ELSE c

\* str.upper()
upper(s) == [i \in 1..Len(s) |-> upper_ch(s[i])]

\* str.lower()
lower(s) == [i \in 1..Len(s) |-> lower_ch(s[i])]

\* str.title(): a letter that follows a letter is lowered, any other letter
\* is raised
title(s) ==
    [i \in 1..Len(s) |->
        IF i > 1 /\ isalpha(s[i - 1]) THEN lower_ch(s[i]) ELSE upper_ch(s[i])]

\* str.startswith(prefix)
startswith(s, prefix) ==
    /\ Len(prefix) <= Len(s)
    /\ SubSeq(s, 1, Len(prefix)) = prefix

\* str.endswith(suffix)
endswith(s, suffix) ==
    /\ Len(suffix) <= Len(s)
    /\ SubSeq(s, Len(s) - Len(suffix) + 1, Len(s)) = suffix

(* ------------------------------ the texts ----------------------------- *)

\* the words of the two state vocabularies and the display states they map
\* to, and the texts the backends are made to answer with: tokens and lines
\* of /proc/mdstat, pool names, IPv6 and MAC addresses and two contents of
\* /sys/class/net/<interface>/address
text ==
    [ ONLINE |-> <<"O", "N", "L", "I", "N", "E">>,
      DEGRADED |-> <<"D", "E", "G", "R", "A", "D", "E", "D">>,
      FAULTED |-> <<"F", "A", "U", "L", "T", "E", "D">>,
      OFFLINE |-> <<"O", "F", "F", "L", "I", "N", "E">>,
      REMOVED |-> <<"R", "E", "M", "O", "V", "E", "D">>,
      UNAVAIL |-> <<"U", "N", "A", "V", "A", "I", "L">>,
      SUSPENDED |-> <<"S", "U", "S", "P", "E", "N", "D", "E", "D">>,
      active |-> <<"a", "c", "t", "i", "v", "e">>,
      clean |-> <<"c", "l", "e", "a", "n">>,
      degraded |-> <<"d", "e", "g", "r", "a", "d", "e", "d">>,
      recovering |-> <<"r", "e", "c", "o", "v", "e", "r", "i", "n", "g">>,
      resyncing |-> <<"r", "e", "s", "y", "n", "c", "i", "n", "g">>,
      failed |-> <<"f", "a", "i", "l", "e", "d">>,
      inactive |-> <<"i", "n", "a", "c", "t", "i", "v", "e">>,
      spare |-> <<"s", "p", "a", "r", "e">>,
      Healthy |-> <<"H", "e", "a", "l", "t", "h", "y">>,
      Degraded |-> <<"D", "e", "g", "r", "a", "d", "e", "d">>,
      Failed |-> <<"F", "a", "i", "l", "e", "d">>,
      Offline |-> <<"O", "f", "f", "l", "i", "n", "e">>,
      Removed |-> <<"R", "e", "m", "o", "v", "e", "d">>,
      Unavailable |->
          <<"U", "n", "a", "v", "a", "i", "l", "a", "b", "l", "e">>,
      Suspended |-> <<"S", "u", "s", "p", "e", "n", "d", "e", "d">>,
      Recovering |-> <<"R", "e", "c", "o", "v", "e", "r", "i", "n", "g">>,
      Resyncing |-> <<"R", "e", "s", "y", "n", "c", "i", "n", "g">>,
      Spare |-> <<"S", "p", "a", "r", "e">>,
      recovery |-> <<"r", "e", "c", "o", "v", "e", "r", "y">>,
      resync |-> <<"r", "e", "s", "y", "n", "c">>,
      unknown |-> <<"u", "n", "k", "n", "o", "w", "n">>,
      WEIRD |-> <<"W", "E", "I", "R", "D">>,
      read_only |->
          <<"a", "u", "t", "o", "-", "r", "e", "a", "d", "-", "o", "n", "l",
            "y">>,
      md0 |-> <<"m", "d", "0">>,
      raid1 |-> <<"r", "a", "i", "d", "1">>,
      raid5 |-> <<"r", "a", "i", "d", "5">>,
      sdb1 |-> <<"s", "d", "b", "1">>,
      sda1 |-> <<"s", "d", "a", "1">>,
      nvme0n1p2 |-> <<"n", "v", "m", "e", "0", "n", "1", "p", "2">>,
      failed_flag |-> <<"(", "F", ")">>,
      line_blocks |->
          <<" ", " ", " ", " ", " ", " ", "1", "0", "4", "8", "5", "7", "6",
            " ", "b", "l", "o", "c", "k", "s", " ", "[", "2", "/", "2", "]",
            " ", "[", "U", "U", "]">>,
      line_bitmap |->
          <<" ", " ", " ", " ", " ", " ", "b", "i", "t", "m", "a", "p", ":",
            " ", "0", "/", "8", " ", "p", "a", "g", "e", "s">>,
      line_recovery |->
          <<" ", " ", " ", " ", " ", " ", "[", "=", ">", ".", ".", ".", "]",
            " ", " ", "r", "e", "c", "o", "v", "e", "r", "y", " ", "=", " ",
            "1", "2", ".", "6", "%">>,
      line_resync |->
          <<" ", " ", " ", " ", " ", " ", "r", "e", "s", "y", "n", "c", "=",
            "D", "E", "L", "A", "Y", "E", "D">>,
      line_degraded |->
          <<" ", " ", " ", " ", " ", " ", "[", "2", "/", "1", "]", " ", "[",
            "U", "_", "]", " ", "d", "e", "g", "r", "a", "d", "e", "d">>,
      line_failed |->
          <<" ", " ", " ", " ", " ", " ", "s", "d", "b", "1", "[", "2", "]",
            " ", "F", "A", "I", "L", "E", "D">>,
      line_rebuild_failed |->
          <<" ", " ", " ", " ", " ", " ", "R", "e", "c", "o", "v", "e", "r",
            "y", " ", "o", "f", " ", "f", "a", "i", "l", "e", "d", " ", "d",
            "i", "s", "k">>,
      line_personalities |->
          <<"P", "e", "r", "s", "o", "n", "a", "l", "i", "t", "i", "e", "s",
            " ", ":", " ", "[", "r", "a", "i", "d", "1", "]">>,
      line_other_array |->
          <<"m", "d", "1", " ", ":", " ", "a", "c", "t", "i", "v", "e", " ",
            "r", "a", "i", "d", "1", " ", "s", "d", "d", "1", "[", "0", "]">>,
      line_unused |->
          <<"u", "n", "u", "s", "e", "d", " ", "d", "e", "v", "i", "c", "e",
            "s", ":", " ", "<", "n", "o", "n", "e", ">">>,
      tank |-> <<"t", "a", "n", "k">>,
      backup |-> <<"b", "a", "c", "k", "u", "p">>,
      ip6_loopback |-> <<":", ":", "1">>,
      ip6_link_local |-> <<"f", "e", "8", "0", ":", ":", "1">>,
      ip6_link_local_zone |-> <<"f", "e", "8", "0", ":", ":", "2", "%", "e">>,
      ip6_global |-> <<"2", "0", "0", "1", ":", ":", "1">>,
      ip6_global_zone |-> <<"2", "0", "0", "1", ":", ":", "2", "%", "e">>,
      ip6_unique_local |-> <<"f", "d", "0", "0", ":", ":", "5">>,
      mac_lower |-> <<"a", "a", ":", "b", "b">>,
      mac_upper |-> <<"0", "C", ":", "1", "D">>,
      mac_mixed |-> <<"a", "1", ":", "B", "e">>,
      mac_no_colon |-> <<"a", "a", "b", "b">>,
      file_lower |-> <<"0", "c", ":", "1", "d", "\n">>,
      file_mixed |-> <<" ", "A", "a", ":", "b", "2", "\n">>,
      chip_coretemp |->
          <<"c", "o", "r", "e", "t", "e", "m", "p", "-", "i", "s", "a", "-", "0",
            "0", "0", "0">>,
      chip_acpitz |->
          <<"a", "c", "p", "i", "t", "z", "-", "a", "c", "p", "i", "-", "0">>,
      line_core0 |->
          <<"C", "o", "r", "e", " ", "0", ":", " ", "+", "4", "5", ".", "0",
            "deg", "C">>,
      line_temp1 |->
          <<"t", "e", "m", "p", "1", ":", " ", "+", "3", "0", ".", "5", "deg",
            "C">>,
      line_package |->
          <<"P", "a", "c", "k", "a", "g", "e", " ", "i", "d", " ", "0", ":", " ",
            "+", "5", "0", ".", "0", "deg", "C">>,
      line_core_na |->
          <<"C", "o", "r", "e", " ", "1", ":", " ", "N", "/", "A">>,
      line_fan |->
          <<"f", "a", "n", "1", ":">>,
      line_core_spaced |->
          <<" ", " ", "C", "o", "r", "e", " ", "2", ":", " ", " ", "+", "5", "1",
            " ", "C", " ", " ", "(", "h", "i", "g", "h", " ", "=", " ", "+", "8",
            "0", ".", "0", "deg", "C", ")">>,
      line_core_zero |->
          <<"C", "o", "r", "e", " ", "3", ":", " ", "+", "0", ".", "0", "deg",
            "C">>,
      label_core |->
          <<"C", "o", "r", "e", " ", "0">>,
      label_package |->
          <<"P", "a", "c", "k", "a", "g", "e", " ", "i", "d", " ", "0">>,
      label_temp1 |->
          <<"t", "e", "m", "p", "1">>,
      coretemp |->
          <<"c", "o", "r", "e", "t", "e", "m", "p">>,
      k10temp |->
          <<"k", "1", "0", "t", "e", "m", "p">>,
      cpu_thermal |->
          <<"c", "p", "u", "_", "t", "h", "e", "r", "m", "a", "l">>,
      zone_x86 |->
          <<"x", "8", "6", "_", "p", "k", "g", "_", "t", "e", "m", "p", "\n">>,
      zone_cpu |->
          <<"C", "P", "U", "-", "t", "h", "e", "r", "m", "\n">>,
      zone_acpitz |->
          <<"a", "c", "p", "i", "t", "z", "\n">>,
      milli_47000 |->
          <<"4", "7", "0", "0", "0", "\n">>,
      milli_200000 |->
          <<"2", "0", "0", "0", "0", "0", "\n">>,
      milli_0 |->
          <<"0", "\n">>,
      milli_neg |->
          <<"-", "5", "0", "0", "0", "\n">>,
      milli_bad |->
          <<"n", "/", "a", "\n">>,
      smart_passed |->
          <<"S", "M", "A", "R", "T", " ", "o", "v", "e", "r", "a", "l", "l", "-",
            "h", "e", "a", "l", "t", "h", " ", "s", "e", "l", "f", "-", "a", "s",
            "s", "e", "s", "s", "m", "e", "n", "t", " ", "t", "e", "s", "t", " ",
            "r", "e", "s", "u", "l", "t", ":", " ", "P", "A", "S", "S", "E", "D",
            "\n">>,
      smart_failed |->
          <<"S", "M", "A", "R", "T", " ", "o", "v", "e", "r", "a", "l", "l", "-",
            "h", "e", "a", "l", "t", "h", " ", "s", "e", "l", "f", "-", "a", "s",
            "s", "e", "s", "s", "m", "e", "n", "t", " ", "t", "e", "s", "t", " ",
            "r", "e", "s", "u", "l", "t", ":", " ", "F", "A", "I", "L", "E", "D",
            "!", "\n">>,
      smart_ok |->
          <<"S", "M", "A", "R", "T", " ", "H", "e", "a", "l", "t", "h", " ", "S",
            "t", "a", "t", "u", "s", ":", " ", "O", "K", "\n">>,
      error |->
          <<"e", "r", "r", "o", "r">>,
      Personalities |->
          <<"P", "e", "r", "s", "o", "n", "a", "l", "i", "t", "i", "e", "s">>,
      unused |->
          <<"u", "n", "u", "s", "e", "d">> ]
(* --------------------------- state mappings --------------------------- *)

\* StorageCollector._map_health_state: health_map
health_map ==
    { <<text.ONLINE, text.Healthy>>, <<text.DEGRADED, text.Degraded>>, <<text.FAULTED, text.Failed>>,
      <<text.OFFLINE, text.Offline>>, <<text.REMOVED, text.Removed>>, <<text.UNAVAIL, text.Unavailable>>,
      <<text.SUSPENDED, text.Suspended>> }

\* MdadmCollector._map_state: state_map
state_map ==
    { <<text.active, text.Healthy>>, <<text.clean, text.Healthy>>, <<text.degraded, text.Degraded>>,
      <<text.recovering, text.Recovering>>, <<text.resyncing, text.Resyncing>>, <<text.failed, text.Failed>>,
      <<text.inactive, text.Offline>>, <<text.spare, text.Spare>> }

\* dict.get(key, default)
get(map, key, default) ==
    IF \E kv \in map : kv[1] = key
    THEN (CHOOSE kv \in map : kv[1] = key)[2]
    ELSE default

\* return health_map.get(zfs_health.upper(), zfs_health)
_map_health_state(zfs_health) == get(health_map, upper(zfs_health), zfs_health)

\* variant: return state_map.get(mdadm_state, mdadm_state.title())
_map_state_CaseSensitive(mdadm_state) == get(state_map, mdadm_state, title(mdadm_state))

\* return state_map.get(mdadm_state.lower(), mdadm_state.title())
_map_state(mdadm_state) == get(state_map, lower(mdadm_state), title(mdadm_state))

(* --------------------------- StorageCollector ------------------------- *)

\* what the two backends answer during one collect(): whether the backend
\* can be queried at all, and the pools it lists with their raw state
NoStorage ==
    [zfs |-> [available |-> FALSE, pools |-> <<>>],
     mdadm |-> [available |-> FALSE, arrays |-> <<>>]]

\* __init__: self.storage_types = storage_types or ['zfs']
storage_types(cfg) == IF cfg.storage_types = {} THEN {"zfs"} ELSE cfg.storage_types

\* _collect_zfs: [] unless zpool answers, else one volume per listed pool
_collect_zfs(zfs) ==
    IF ~zfs.available
    THEN <<>>
    ELSE [i \in 1..Len(zfs.pools) |->
            [name |-> zfs.pools[i].name, type |-> "ZFS",
             health |-> zfs.pools[i].health, raw_state |-> <<>>,
             state |-> _map_health_state(zfs.pools[i].health)]]

\* _collect_mdadm, MdadmCollector.collect and _get_array_info
_collect_mdadm(mdadm) ==
    IF ~mdadm.available
    THEN <<>>
    ELSE [i \in 1..Len(mdadm.arrays) |->
            [name |-> mdadm.arrays[i].name, type |-> "MDADM",
             health |-> <<>>, raw_state |-> mdadm.arrays[i].raw_state,
             state |-> _map_state(mdadm.arrays[i].raw_state)]]

\* StorageCollector.collect
StorageCollector_collect(cfg, seen) ==
    IF ~cfg.enabled
    THEN <<>>
    ELSE (IF "zfs" \in storage_types(cfg) THEN _collect_zfs(seen.zfs) ELSE <<>>)
         \o (IF "mdadm" \in storage_types(cfg) THEN _collect_mdadm(seen.mdadm) ELSE <<>>)

\* variant: only the ZFS pools are looked at
get_overall_storage_state_ZfsOnly(cfg, seen) ==
    IF ~cfg.enabled \/ ~cfg.health_enabled
    THEN "Healthy"
    ELSE LET storage_volumes == StorageCollector_collect(cfg, seen)
         IN  IF storage_volumes = <<>>
             THEN "Unknown"
             ELSE IF /\ "zfs" \in storage_types(cfg)
                     /\ \E i \in 1..Len(storage_volumes) :
                           /\ storage_volumes[i].type = "ZFS"
                           /\ upper(storage_volumes[i].health) \in
                                 {text.DEGRADED, text.FAULTED, text.OFFLINE,
                                  text.UNAVAIL, text.SUSPENDED}
                  THEN "Problem"
                  ELSE "Healthy"

\* StorageCollector.get_overall_storage_state: each loop returns "Problem"
\* at its first volume in a problem state
get_overall_storage_state(cfg, seen) ==
    IF ~cfg.enabled \/ ~cfg.health_enabled
    THEN "Healthy"
    ELSE LET storage_volumes == StorageCollector_collect(cfg, seen)
         IN  IF storage_volumes = <<>>
             THEN "Unknown"
             ELSE IF /\ "zfs" \in storage_types(cfg)
                     /\ \E i \in 1..Len(storage_volumes) :
                           /\ storage_volumes[i].type = "ZFS"
                           /\ upper(storage_volumes[i].health) \in
                                 {text.DEGRADED, text.FAULTED, text.OFFLINE,
                                  text.UNAVAIL, text.SUSPENDED}
                  THEN "Problem"
                  ELSE IF /\ "mdadm" \in storage_types(cfg)
                          /\ \E i \in 1..Len(storage_volumes) :
                                /\ storage_volumes[i].type = "MDADM"
                                /\ lower(storage_volumes[i].raw_state) \in
                                      {text.degraded, text.failed, text.inactive,
                                       text.recovering, text.resyncing}
                       THEN "Problem"
                       ELSE "Healthy"

(* ------------------ NASMonitorDaemon.collect_all_data ----------------- *)

\* variant: data['storage_state'] = storage_state, whatever it is
snapshot_storage_state_Always(cfg, smart, seen) ==
    IF cfg.enabled /\ cfg.health_enabled
    THEN get_overall_storage_state(cfg, seen)
    ELSE smart

\* data['storage_state'] = temp_collector.get_storage_health(); then, if
\* storage_collector.enabled and storage_collector.health_enabled, the
\* verdict of get_overall_storage_state() replaces it unless it is "Unknown"
snapshot_storage_state(cfg, smart, seen) ==
    IF cfg.enabled /\ cfg.health_enabled
    THEN LET storage_state == get_overall_storage_state(cfg, seen)
         IN  IF storage_state # "Unknown" THEN storage_state ELSE smart
    ELSE smart

\* collect_all_data: the storage part of the snapshot. collect() runs twice,
\* once for data['pools'] and once inside get_overall_storage_state
collect_all_data(cfg, smart, seen_first, seen_second) ==
    [pools |-> StorageCollector_collect(cfg, seen_first),
     storage_state |-> snapshot_storage_state(cfg, smart, seen_second)]

(* ----------------------- inputs of the collectors --------------------- *)

\* the raw states a backend reports, in the letter case it uses and in one
\* other
ZfsHealths ==
    {text.ONLINE, text.DEGRADED, text.FAULTED, text.OFFLINE, text.REMOVED,
     text.UNAVAIL, text.SUSPENDED, text.degraded}

MdadmStates ==
    {text.active, text.clean, text.degraded, text.recovering, text.resyncing, text.failed, text.inactive, text.spare, text.Degraded}

\* a backend that cannot be queried, or the pools it lists; at most MaxPools
\* volumes over both backends
Sightings ==
    LET ZfsListings ==
            {[available |-> FALSE, pools |-> <<>>]}
            \cup {[available |-> TRUE, pools |-> ps] :
                    ps \in SeqsUpTo([name : {"tank"}, health : ZfsHealths], MaxPools)}
        MdadmListings ==
            {[available |-> FALSE, arrays |-> <<>>]}
            \cup {[available |-> TRUE, arrays |-> as] :
                    as \in SeqsUpTo([name : {"md0"}, raw_state : MdadmStates], MaxPools)}
    IN  {s \in [zfs : ZfsListings, mdadm : MdadmListings] :
            Len(s.zfs.pools) + Len(s.mdadm.arrays) <= MaxPools}

StorageConfigs ==
    [enabled : BOOLEAN, health_enabled : BOOLEAN,
     storage_types : {{}, {"zfs"}, {"mdadm"}, {"zfs", "mdadm"}}]

(* -------------------------- TemperatureCollector ---------------------- *)

\* largest monitoring.max_hdds and longest monitoring.hdd_devices tried
MaxSlots == 6

\* __init__: the five device paths used when none is configured
default_hdd_devices == <<"/dev/sda", "/dev/sdb", "/dev/sdc", "/dev/sdd", "/dev/sde">>

\* collect: hdd_temps[:5] and range(1, 6)
hdd_slots == 5

\* _get_hdd_temperatures: one reading per device of self.hdd_devices, in
\* order, where self.hdd_devices = hdd_devices or the five default paths
_get_hdd_temperatures(cfg, probes) ==
    IF cfg.hdd_devices = <<>>
    THEN [i \in 1..Len(default_hdd_devices) |-> probes.defaults[i]]
    ELSE [i \in 1..Len(cfg.hdd_devices) |-> probes.disks[i]]

\* TemperatureCollector.collect: temps['system'], then temps['hdd1'] up to
\* temps['hdd5']; hdd[i] is the value under the key 'hdd<i>'
TemperatureCollector_collect(cfg, probes) ==
    LET hdd_temps == _get_hdd_temperatures(cfg, probes)
    IN  [system |-> probes.cpu,
         hdd |-> [i \in 1..hdd_slots |->
                    IF i <= Len(hdd_temps) THEN hdd_temps[i] ELSE 0]]

\* the configurations of the claim: max_hdds slots, not more devices than
\* slots; and every combination of failing and succeeding probes, where 0
\* stands for 0.0, the reading of a failed probe
TemperatureCalls ==
    UNION {
        { [cfg |-> [max_hdds |-> n,
                    hdd_devices |-> [i \in 1..Len(t) |-> <<"disk", i>>]],
           probes |-> [cpu |-> c, disks |-> t, defaults |-> d]]
            : t \in SeqsUpTo({0, 35, 41}, n), c \in {0, 47},
              d \in {<<0, 0, 0, 0, 0>>, <<35, 0, 41, 0, 0>>} }
        : n \in 1..MaxSlots }

(* --------------------------- NetworkCollector ------------------------- *)

\* the outcome of a call that can raise
Raised == [raised |-> TRUE, value |-> <<>>]

Return(v) == [raised |-> FALSE, value |-> v]

\* the value of interface when none is active
None == "None"

whitespace == {" ", "\t", "\n"}

\* str.strip(): s without the whitespace at its two ends
strip(s) ==
    IF \A i \in 1..Len(s) : s[i] \in whitespace
    THEN <<>>
    ELSE LET first == CHOOSE i \in 1..Len(s) :
                        s[i] \notin whitespace /\ \A j \in 1..(i - 1) : s[j] \in whitespace
             last == CHOOSE i \in 1..Len(s) :
                       s[i] \notin whitespace /\ \A j \in (i + 1)..Len(s) : s[j] \in whitespace
         IN  SubSeq(s, first, last)

\* s.split(sep)[0]: what comes before the first sep, all of s without one
first_field(s, sep) ==
    IF sep \in Range(s)
    THEN SubSeq(s, 1, (CHOOSE i \in 1..Len(s) : s[i] = sep /\ \A j \in 1..(i - 1) : s[j] # sep) - 1)
    ELSE s

\* the first element of s that satisfies Test, in a one-element sequence, or
\* <<>>: a for loop that returns at its first match
first_match(s, Test(_)) ==
    IF \E i \in 1..Len(s) : Test(s[i])
    THEN <<s[CHOOSE i \in 1..Len(s) : Test(s[i]) /\ \A j \in 1..(i - 1) : ~Test(s[j])]>>
    ELSE <<>>

\* the address of an interface in netifaces.ifaddresses, or the failure of
\* that call
ifaddresses(net, interface) ==
    IF interface \in DOMAIN net.ifaddresses THEN net.ifaddresses[interface] ELSE Raised

\* _is_interface_active: any exception makes it False
_is_interface_active(net, interface) ==
    IF net.interfaces.raised THEN FALSE
    ELSE IF interface \notin Range(net.interfaces.value) THEN FALSE
    ELSE IF ifaddresses(net, interface).raised THEN FALSE
    ELSE LET ipv4_addrs == ifaddresses(net, interface).value.inet
         IN  \E k \in 1..Len(ipv4_addrs) :
                ipv4_addrs[k] # "" /\ ipv4_addrs[k] # "127.0.0.1"

\* variant: the fallbacks are tried before the primary interface
_get_active_interface_FallbackFirst(cfg, net) ==
    LET is_active(i) == _is_interface_active(net, i)
        is_system(i) == i # "lo" /\ is_active(i)
    IN  IF first_match(cfg.fallback_interfaces, is_active) # <<>>
        THEN first_match(cfg.fallback_interfaces, is_active)[1]
        ELSE IF is_active(cfg.primary_interface) THEN cfg.primary_interface
        ELSE IF net.interfaces.raised THEN None
        ELSE IF first_match(net.interfaces.value, is_system) # <<>>
        THEN first_match(net.interfaces.value, is_system)[1]
        ELSE None

\* _get_active_interface: the primary interface, else the first active
\* fallback, else the first active one of netifaces.interfaces() but 'lo'
_get_active_interface(cfg, net) ==
    LET is_active(i) == _is_interface_active(net, i)
        is_system(i) == i # "lo" /\ is_active(i)
    IN  IF is_active(cfg.primary_interface) THEN cfg.primary_interface
        ELSE IF first_match(cfg.fallback_interfaces, is_active) # <<>>
        THEN first_match(cfg.fallback_interfaces, is_active)[1]
        ELSE IF net.interfaces.raised THEN None
        ELSE IF first_match(net.interfaces.value, is_system) # <<>>
        THEN first_match(net.interfaces.value, is_system)[1]
        ELSE None

\* variant: return mac
_get_mac_address_AsFound(net, interface) ==
    LET has_colon(mac) == mac # <<>> /\ ":" \in Range(mac)
    IN  IF ifaddresses(net, interface).raised THEN <<>>
        ELSE IF first_match(ifaddresses(net, interface).value.link, has_colon) # <<>>
        THEN first_match(ifaddresses(net, interface).value.link, has_colon)[1]
        ELSE IF interface \in DOMAIN net.address_file
        THEN strip(net.address_file[interface])
        ELSE <<>>

\* _get_mac_address: the first AF_LINK address with a ':' in it, else what
\* /sys/class/net/<interface>/address holds, else ''
_get_mac_address(net, interface) ==
    LET has_colon(mac) == mac # <<>> /\ ":" \in Range(mac)
    IN  IF ifaddresses(net, interface).raised THEN <<>>
        ELSE IF first_match(ifaddresses(net, interface).value.link, has_colon) # <<>>
        THEN upper(first_match(ifaddresses(net, interface).value.link, has_colon)[1])
        ELSE IF interface \in DOMAIN net.address_file
        THEN upper(strip(net.address_file[interface]))
        ELSE <<>>

\* _get_ipv4_address
_get_ipv4_address(net, interface) ==
    LET usable(ip) == ip # "" /\ ip # "127.0.0.1"
    IN  IF ifaddresses(net, interface).raised THEN ""
        ELSE IF first_match(ifaddresses(net, interface).value.inet, usable) # <<>>
        THEN first_match(ifaddresses(net, interface).value.inet, usable)[1]
        ELSE ""

\* variant: return ip, zone suffix included
_get_ipv6_address_KeepZone(net, interface) ==
    LET usable(ip) ==
            /\ ip # <<>>
            /\ ~startswith(ip, <<":", ":", "1">>)
            /\ ~startswith(ip, <<"f", "e", "8", "0">>)
    IN  IF ifaddresses(net, interface).raised THEN <<>>
        ELSE IF first_match(ifaddresses(net, interface).value.inet6, usable) # <<>>
        THEN first_match(ifaddresses(net, interface).value.inet6, usable)[1]
        ELSE <<>>

\* _get_ipv6_address
_get_ipv6_address(net, interface) ==
    LET usable(ip) ==
            /\ ip # <<>>
            /\ ~startswith(ip, <<":", ":", "1">>)
            /\ ~startswith(ip, <<"f", "e", "8", "0">>)
    IN  IF ifaddresses(net, interface).raised THEN <<>>
        ELSE IF first_match(ifaddresses(net, interface).value.inet6, usable) # <<>>
        THEN first_field(first_match(ifaddresses(net, interface).value.inet6, usable)[1], "%")
        ELSE <<>>

\* the mapping collect returns when it has nothing to report
EmptyIdentity == [mac |-> <<>>, ipv4 |-> "", ipv6 |-> <<>>]

\* variant: return {} when no interface is active
NetworkCollector_collect_NoIdentity(cfg, net) ==
    LET interface == _get_active_interface(cfg, net)
    IN  IF interface = None
        THEN Return(<<>>)
        ELSE Return([mac |-> _get_mac_address(net, interface),
                     ipv4 |-> _get_ipv4_address(net, interface),
                     ipv6 |-> _get_ipv6_address(net, interface)])

\* NetworkCollector.collect; its helpers catch what netifaces raises, so the
\* except of collect has nothing left to catch
NetworkCollector_collect(cfg, net) ==
    LET interface == _get_active_interface(cfg, net)
    IN  IF interface = None
        THEN Return(EmptyIdentity)
        ELSE Return([mac |-> _get_mac_address(net, interface),
                     ipv4 |-> _get_ipv4_address(net, interface),
                     ipv6 |-> _get_ipv6_address(net, interface)])

(* ---------------------- inputs of the NetworkCollector ---------------- *)

\* longest address list of one family on one interface
MaxAddrs == 2

NetworkConfigs ==
    [primary_interface : {"eth0", "wlan0"},
     fallback_interfaces : {<<"enp0s3", "wlan0">>, <<"wlan0", "enp0s3">>}]

\* netifaces.interfaces(): the interfaces in the system's order, or a failure
InterfaceLists ==
    {Raised}
    \cup {Return(l) : l \in {<<"lo", "eth0", "enp0s3", "wlan0">>,
                             <<"wlan0", "enp0s3", "lo">>,
                             <<"lo", "enp0s3", "wlan0">>,
                             <<"lo">>}}

\* the systems on which the choice of the interface is examined: every
\* listed interface with any of four lists of IPv4 addresses
SelectionNets ==
    UNION {
        { [interfaces |-> l,
           ifaddresses |->
               [i \in (IF l.raised THEN {} ELSE Range(l.value)) |->
                   Return([inet |-> v4[i], inet6 |-> <<text.ip6_global>>,
                           link |-> <<text.mac_lower>>])],
           address_file |-> [i \in {} |-> <<>>]]
            : v4 \in [{"eth0", "enp0s3", "wlan0", "lo"} ->
                         {<<>>, <<"127.0.0.1">>, <<"192.168.1.10">>,
                          <<"127.0.0.1", "10.0.0.2">>}] }
        : l \in InterfaceLists }

\* the systems on which one address of eth0 is looked up: any lists of IPv6
\* and link-layer addresses, the address file absent, empty or filled; the
\* lookup of an interface that is gone fails, and its file is gone with it
LookupNets ==
    LET Ipv6Addrs == {<<>>, text.ip6_loopback, text.ip6_link_local,
                      text.ip6_link_local_zone, text.ip6_global,
                      text.ip6_global_zone, text.ip6_unique_local}
        LinkAddrs == {<<>>, text.mac_lower, text.mac_upper, text.mac_mixed,
                      text.mac_no_colon}
        AddressFiles == {[i \in {} |-> <<>>]}
                        \cup {[i \in {"eth0"} |-> c] :
                                c \in {<<>>, text.file_lower, text.file_mixed}}
    IN  {[interfaces |-> Return(<<"lo">>), ifaddresses |-> [i \in {} |-> Raised],
          address_file |-> [i \in {} |-> <<>>]]}
        \cup
        UNION {
            { [interfaces |-> Return(<<"lo", "eth0">>),
               ifaddresses |->
                   [i \in {"eth0"} |->
                       Return([inet |-> <<"192.168.1.10">>, inet6 |-> a.inet6,
                               link |-> a.link])],
               address_file |-> f] : f \in AddressFiles }
            : a \in [inet6 : SeqsUpTo(Ipv6Addrs, MaxAddrs), link : {<<text.mac_lower>>}]
                   \cup [inet6 : {<<text.ip6_global>>},
                         link : SeqsUpTo(LinkAddrs, MaxAddrs)] }

(* ---------------------------- MdadmCollector -------------------------- *)

digits == {"0", "1", "2", "3", "4", "5", "6", "7", "8", "9"}

\* s.split(sep) for the separators seps: the fields between them, empty
\* ones included
RECURSIVE split_on(_, _)
split_on(s, seps) ==
    IF \E i \in 1..Len(s) : s[i] \in seps
    THEN LET i == CHOOSE k \in 1..Len(s) :
                    s[k] \in seps /\ \A j \in 1..(k - 1) : s[j] \notin seps
         IN  <<SubSeq(s, 1, i - 1)>> \o split_on(SubSeq(s, i + 1, Len(s)), seps)
    ELSE <<s>>

\* s.split(): the fields between runs of whitespace
split(s) == LET filled(f) == f # <<>> IN SelectSeq(split_on(s, whitespace), filled)

\* sub in s
contains(s, sub) ==
    \E i \in 1..(Len(s) - Len(sub) + 1) : SubSeq(s, i, i + Len(sub) - 1) = sub

\* sep.join(parts)
RECURSIVE join(_, _)
join(parts, sep) ==
    IF parts = <<>> THEN <<>>
    ELSE IF Len(parts) = 1 THEN parts[1]
    ELSE parts[1] \o sep \o join(Tail(parts), sep)

\* variant: device = part
strip_slots_Keep(s) == s

\* re.sub(r'\[\d+\]', '', part)
RECURSIVE strip_slots(_)
strip_slots(s) ==
    LET \* s[i..j] matches \[\d+\]
        is_slot(i, j) ==
            /\ s[i] = "["
            /\ j > i + 1
            /\ s[j] = "]"
            /\ \A k \in (i + 1)..(j - 1) : s[k] \in digits
    IN  IF \E i, j \in 1..Len(s) : is_slot(i, j)
        THEN LET i == CHOOSE a \in 1..Len(s) :
                        /\ \E b \in 1..Len(s) : is_slot(a, b)
                        /\ \A c \in 1..(a - 1) : \A b \in 1..Len(s) : ~is_slot(c, b)
                 j == CHOOSE b \in 1..Len(s) : is_slot(i, b)
             IN  SubSeq(s, 1, i - 1) \o strip_slots(SubSeq(s, j + 1, Len(s)))
        ELSE s

\* re.match(r'^md\d+\s*:', line)
is_array_line(line) ==
    /\ startswith(line, <<"m", "d">>)
    /\ \E d \in 3..Len(line) : \E c \in (d + 1)..Len(line) :
          /\ \A k \in 3..d : line[k] \in digits
          /\ \A k \in (d + 1)..(c - 1) : line[k] \in whitespace
          /\ line[c] = ":"

\* _get_array_state: the lines from the one that starts with '<name> :' up
\* to the next empty line or the next array
RECURSIVE array_section(_, _, _)
array_section(array_name, lines, in_array) ==
    IF lines = <<>> THEN <<>>
    ELSE IF startswith(Head(lines), array_name \o <<" ", ":">>)
    THEN <<Head(lines)>> \o array_section(array_name, Tail(lines), TRUE)
    ELSE IF in_array
    THEN IF strip(Head(lines)) = <<>> \/ is_array_line(Head(lines))
         THEN <<>>
         ELSE <<Head(lines)>> \o array_section(array_name, Tail(lines), TRUE)
    ELSE array_section(array_name, Tail(lines), FALSE)

\* _get_array_state: the state after the continuation lines, the later line
\* overwriting the earlier; within a line the first keyword of the if chain
RECURSIVE scan_state(_, _)
scan_state(state, more) ==
    IF more = <<>> THEN state
    ELSE LET line == lower(strip(Head(more)))
         IN  scan_state(IF contains(line, text.recovery) THEN <<text.recovering>>
                        ELSE IF contains(line, text.resync) THEN <<text.resyncing>>
                        ELSE IF contains(line, text.degraded) THEN <<text.degraded>>
                        ELSE IF contains(line, text.failed) THEN <<text.failed>>
                        ELSE state,
                        Tail(more))

\* _get_array_state: info, each key in a one-element sequence when set; <<>>
\* for None
_get_array_state(array_name, mdstat) ==
    IF ~mdstat.exists THEN <<>>
    ELSE LET section == array_section(array_name, mdstat.lines, FALSE)
         IN  IF section = <<>> THEN <<>>
             ELSE LET parts == split(section[1])
                      filled(device) == device # <<>>
                      devices == SelectSeq([k \in 1..(Len(parts) - 4) |->
                                               strip_slots(parts[k + 4])], filled)
                  IN  <<[state |-> scan_state(IF Len(parts) >= 3 THEN <<parts[3]>> ELSE <<>>,
                                              Tail(section)),
                         raid_level |-> IF Len(parts) >= 4 THEN <<parts[4]>> ELSE <<>>,
                         devices |-> IF Len(parts) >= 3
                                     THEN <<join(devices, <<",">>)>> ELSE <<>>]>>

\* dict.get(key, default) on such an info
info_get(field, default) == IF field = <<>> THEN default ELSE field[1]

\* _get_array_info without capacity, usage and mount_point; <<>> for None,
\* which is also the answer to an info without any key
_get_array_info(array_name, mdstat) ==
    LET state_info == _get_array_state(array_name, mdstat)
    IN  IF state_info = <<>> THEN <<>>
        ELSE IF state_info[1].state = <<>> /\ state_info[1].raid_level = <<>>
                /\ state_info[1].devices = <<>>
        THEN <<>>
        ELSE <<[name |-> array_name,
                type |-> "MDADM",
                raid_level |-> info_get(state_info[1].raid_level, text.unknown),
                state |-> _map_state(info_get(state_info[1].state, text.unknown)),
                raw_state |-> info_get(state_info[1].state, text.unknown),
                devices |-> info_get(state_info[1].devices, <<>>)]>>

(* ----------------------- inputs of the MdadmCollector ----------------- *)

\* most continuation lines of one array
MaxLines == 2

\* an array as /proc/mdstat describes it: its first line in fields, and its
\* continuation lines, each with the keywords it holds
Arrays ==
    LET ContinuationLines ==
            { [text |-> text.line_blocks, keywords |-> {}],
              [text |-> text.line_bitmap, keywords |-> {}],
              [text |-> text.line_recovery, keywords |-> {"recovery"}],
              [text |-> text.line_resync, keywords |-> {"resync"}],
              [text |-> text.line_degraded, keywords |-> {"degraded"}],
              [text |-> text.line_failed, keywords |-> {"failed"}],
              [text |-> text.line_rebuild_failed, keywords |-> {"recovery", "failed"}] }
        MemberLists ==
            { <<[device |-> text.sdb1, slot |-> <<"1">>, flag |-> <<>>],
                [device |-> text.sda1, slot |-> <<"0">>, flag |-> <<>>]>>,
              <<[device |-> text.sda1, slot |-> <<"0">>, flag |-> <<>>]>>,
              <<[device |-> text.nvme0n1p2, slot |-> <<"1", "0">>, flag |-> <<>>],
                [device |-> text.sdb1, slot |-> <<"2">>, flag |-> text.failed_flag]>> }
    IN  [state : {text.active, text.inactive},
         raid_level : {text.raid1, text.raid5},
         members : MemberLists,
         more : SeqsUpTo(ContinuationLines, MaxLines)]

\* /proc/mdstat with the array md0 in it, after the header or after another
\* array, and before the closing lines
mdstat_of(a, after_other) ==
    LET \* "md0 : active raid1 sdb1[1] sda1[0]"
        first_line ==
            join(<<text.md0, <<":">>, a.state, a.raid_level>>
                 \o [k \in 1..Len(a.members) |->
                       a.members[k].device \o <<"[">> \o a.members[k].slot
                       \o <<"]">> \o a.members[k].flag],
                 <<" ">>)
    IN  [exists |-> TRUE,
         lines |-> (IF after_other
                    THEN <<text.line_personalities, text.line_other_array,
                           text.line_blocks, <<>>>>
                    ELSE <<text.line_personalities>>)
                   \o <<first_line>>
                   \o [k \in 1..Len(a.more) |-> a.more[k].text]
                   \o <<<<>>, text.line_unused>>]

ArrayCalls ==
    {[array_name |-> text.md0, mdstat |-> mdstat_of(a, o), array |-> a]
        : a \in Arrays, o \in BOOLEAN}

\* longest raw state outside the vocabulary
MaxWord == 3

\* a word in every mix of upper and lower case
RECURSIVE CaseVariants(_)
CaseVariants(word) ==
    IF word = <<>> THEN {<<>>}
    ELSE {<<c>> \o rest : c \in {lower_ch(Head(word)), upper_ch(Head(word))},
                          rest \in CaseVariants(Tail(word))}

\* the raw states _map_state is given: the vocabulary in any letter case,
\* and other words
RaidStates ==
    UNION {CaseVariants(kv[1]) : kv \in state_map}
    \cup SeqsUpTo({"w", "E", "1", "-"}, MaxWord)
    \cup {text.WEIRD, text.read_only}

(* ------------------ StorageCollector._get_zfs_pool_info --------------- *)

\* variant: usage = f"{capacity_pct}%"
_get_zfs_pool_info_AppendPercent(pool_name, result) ==
    IF result.returncode # 0 THEN <<>>
    ELSE LET parts == split_on(strip(result.stdout), {"\t"})
         IN  IF Len(parts) < 6 THEN <<>>
             ELSE <<[name |-> parts[1],
                     capacity |-> parts[2],
                     usage |-> parts[5] \o <<"%">>,
                     state |-> _map_health_state(parts[6]),
                     allocated |-> parts[3],
                     free |-> parts[4],
                     health |-> parts[6]]>>

\* _get_zfs_pool_info: the answer of 'zpool list -H -o
\* name,size,alloc,free,cap,health <pool>' as a pool; <<>> for None
_get_zfs_pool_info(pool_name, result) ==
    IF result.returncode # 0 THEN <<>>
    ELSE LET parts == split_on(strip(result.stdout), {"\t"})
         IN  IF Len(parts) < 6 THEN <<>>
             ELSE <<[name |-> parts[1],
                     capacity |-> parts[2],
                     usage |-> IF endswith(parts[5], <<"%">>)
                               THEN parts[5] ELSE parts[5] \o <<"%">>,
                     state |-> _map_health_state(parts[6]),
                     allocated |-> parts[3],
                     free |-> parts[4],
                     health |-> parts[6]]>>

\* the fields zpool prints for one pool
ZpoolFields ==
    [name : {text.tank, text.backup},
     size : {<<"2", "T">>, <<"9", "3", "1", "G">>},
     allocated : {<<"1", ".", "5", "T">>},
     free : {<<"5", "0", "0", "G">>},
     capacity_pct : {<<"7", "5", "%">>, <<"7", "5">>, <<"0", "%">>, <<"-">>},
     health : ZfsHealths \cup {text.WEIRD}]

\* zpool list of one pool: it prints "tank\t2T\t1.5T\t500G\t75%\tONLINE\n",
\* or it fails
ZpoolCalls ==
    LET zpool_line(f) ==
            join(<<f.name, f.size, f.allocated, f.free, f.capacity_pct, f.health>>,
                 <<"\t">>)
            \o <<"\n">>
    IN  {[pool_name |-> f.name, fields |-> f,
          result |-> [returncode |-> 0, stdout |-> zpool_line(f)]] : f \in ZpoolFields}
        \cup {[pool_name |-> f.name, fields |-> f,
               result |-> [returncode |-> 1, stdout |-> <<>>]] : f \in ZpoolFields}

(* ------------------- TemperatureCollector: the CPU --------------------- *)

\* A temperature is a whole number of thousandths of a degree Celsius:
\* 45000 is the float 45.0 and 0 is 0.0. The degree sign is the one
\* character "deg".

\* the value of a run of decimal digits, 0 for the empty run
RECURSIVE natural(_)
natural(s) ==
    IF s = <<>> THEN 0
    ELSE LET numerals == <<"0", "1", "2", "3", "4", "5", "6", "7", "8", "9">>
             last == CHOOSE k \in 1..10 : numerals[k] = s[Len(s)]
         IN  natural(SubSeq(s, 1, Len(s) - 1)) * 10 + (last - 1)

\* int(s) of a stripped text: an optional sign and at least one digit, a
\* ValueError for anything else
int(s) ==
    LET signed == s # <<>> /\ s[1] \in {"+", "-"}
        body == IF signed THEN Tail(s) ELSE s
    IN  IF body # <<>> /\ \A i \in 1..Len(body) : body[i] \in digits
        THEN Return(IF signed /\ s[1] = "-" THEN 0 - natural(body) ELSE natural(body))
        ELSE Raised

\* float(s) of a text that matches \d+\.?\d*, to three decimal places
float(s) ==
    LET whole == first_field(s, ".")
        fraction == SubSeq(s, Len(whole) + 2, Len(s))
    IN  natural(whole) * 1000
        + natural([i \in 1..3 |-> IF i <= Len(fraction) THEN fraction[i] ELSE "0"])

\* re.search(r'[+-]?(\d+\.?\d*)\s*°?C', line): group 1 of the leftmost
\* match in a one-element sequence, <<>> without a match. Every quantifier
\* is greedy, and giving back what one of them took never makes the rest
\* match, so at each start there is one way to match.
re_temperature(line) ==
    LET n == Len(line)
        \* the end of the longest run of digits that starts at p
        run_end(p) ==
            IF p > n \/ line[p] \notin digits THEN p - 1
            ELSE CHOOSE q \in p..n :
                    /\ \A k \in p..q : line[k] \in digits
                    /\ q = n \/ line[q + 1] \notin digits
        first_digit(i) == IF line[i] \in {"+", "-"} THEN i + 1 ELSE i
        whole_end(i) == run_end(first_digit(i))
        group_end(i) ==
            IF whole_end(i) < n /\ line[whole_end(i) + 1] = "."
            THEN run_end(whole_end(i) + 2)
            ELSE whole_end(i)
        after_space(i) ==
            IF \E t \in (group_end(i) + 1)..n : line[t] \notin whitespace
            THEN CHOOSE t \in (group_end(i) + 1)..n :
                    /\ line[t] \notin whitespace
                    /\ \A k \in (group_end(i) + 1)..(t - 1) : line[k] \in whitespace
            ELSE n + 1
        after_degree(i) ==
            IF after_space(i) <= n /\ line[after_space(i)] = "deg"
            THEN after_space(i) + 1
            ELSE after_space(i)
        matches(i) ==
            /\ whole_end(i) >= first_digit(i)
            /\ after_degree(i) <= n
            /\ line[after_degree(i)] = "C"
    IN  IF \E i \in 1..n : matches(i)
        THEN LET i == CHOOSE a \in 1..n : matches(a) /\ \A b \in 1..(a - 1) : ~matches(b)
             IN  <<SubSeq(line, first_digit(i), group_end(i))>>
        ELSE <<>>

\* _get_sensors_temperature, the lines of the output read for one sensor
\* name: the reading found, or <<>>
RECURSIVE named_scan(_, _, _)
named_scan(sensor_name, lines, sensor_section) ==
    IF lines = <<>> THEN <<>>
    ELSE LET line == strip(Head(lines))
             match == re_temperature(line)
         IN  IF contains(line, sensor_name)
             THEN named_scan(sensor_name, Tail(lines), TRUE)
             ELSE IF /\ sensor_section
                     /\ \/ contains(line, <<"C", "o", "r", "e">>)
                        \/ contains(lower(line), <<"t", "e", "m", "p">>)
             THEN IF match # <<>>
                  THEN <<float(match[1])>>
                  ELSE named_scan(sensor_name, Tail(lines), sensor_section)
             ELSE IF endswith(line, <<":">>) /\ sensor_section
             THEN named_scan(sensor_name, Tail(lines), FALSE)
             ELSE named_scan(sensor_name, Tail(lines), sensor_section)

\* _get_sensors_temperature: run is what subprocess.run(['sensors']) gives,
\* and self.sensor_names = sensor_names or ['coretemp-isa-0000']
_get_sensors_temperature(sensor_names, run) ==
    IF run.raised THEN 0
    ELSE IF run.value.returncode # 0 THEN 0
    ELSE LET lines == split_on(run.value.stdout, {"\n"})
             found(sensor_name) == named_scan(sensor_name, lines, FALSE) # <<>>
             self_sensor_names ==
                 IF sensor_names = <<>> THEN <<text.chip_coretemp>> ELSE sensor_names
             named == first_match(self_sensor_names, found)
             generic(line) ==
                 /\ contains(line, <<"C", "o", "r", "e">>)
                 /\ contains(line, <<"deg", "C">>)
                 /\ re_temperature(line) # <<>>
             any_core == first_match(lines, generic)
         IN  IF named # <<>> THEN named_scan(named[1], lines, FALSE)[1]
             ELSE IF any_core # <<>> THEN float(re_temperature(any_core[1])[1])
             ELSE 0

\* _get_psutil_temperature: temps is what psutil.sensors_temperatures()
\* gives, the groups of the dict in its order; temps['coretemp'][0] of an
\* empty group raises, which is caught
_get_psutil_temperature(temps) ==
    IF temps.raised \/ temps.value = <<>> THEN 0
    ELSE LET coretemp(g) == g.name = text.coretemp
             named_cpu(g) == g.sensors # <<>> /\ contains(lower(g.name), <<"c", "p", "u">>)
             filled(g) == g.sensors # <<>>
             preferred(sensor) ==
                 \/ contains(lower(sensor.label), <<"c", "o", "r", "e">>)
                 \/ contains(lower(sensor.label), <<"p", "a", "c", "k", "a", "g", "e">>)
         IN  IF first_match(temps.value, coretemp) # <<>>
             THEN LET sensors == first_match(temps.value, coretemp)[1].sensors
                  IN  IF first_match(sensors, preferred) # <<>>
                      THEN first_match(sensors, preferred)[1].current
                      ELSE IF sensors = <<>> THEN 0 ELSE sensors[1].current
             ELSE IF first_match(temps.value, named_cpu) # <<>>
             THEN first_match(temps.value, named_cpu)[1].sensors[1].current
             ELSE IF first_match(temps.value, filled) # <<>>
             THEN first_match(temps.value, filled)[1].sensors[1].current
             ELSE 0

\* _get_thermal_zone_temperature: zones is the list of the thermal zones,
\* each with the content of its files type and temp where they exist
_get_thermal_zone_temperature(zones) ==
    IF zones.raised THEN 0
    ELSE LET is_cpu(zone) ==
                 /\ zone.type # <<>>
                 /\ \/ contains(lower(strip(zone.type[1])), <<"c", "p", "u">>)
                    \/ contains(lower(strip(zone.type[1])),
                                <<"x", "8", "6", "_", "p", "k", "g", "_", "t", "e", "m", "p">>)
             temp_millidegrees(zone) == int(strip(zone.temp[1]))
             sane(zone) ==
                 /\ is_cpu(zone)
                 /\ zone.temp # <<>>
                 /\ ~temp_millidegrees(zone).raised
                 /\ 0 < temp_millidegrees(zone).value
                 /\ temp_millidegrees(zone).value < 150000
         IN  IF first_match(zones.value, sane) # <<>>
             THEN temp_millidegrees(first_match(zones.value, sane)[1]).value
             ELSE 0

\* temp = source(); if temp > 0: return temp, for each source in turn; 0.0
\* after the last one
first_positive(temps) ==
    IF \E i \in 1..Len(temps) : temps[i] > 0
    THEN temps[CHOOSE i \in 1..Len(temps) :
                  temps[i] > 0 /\ \A j \in 1..(i - 1) : temps[j] <= 0]
    ELSE 0

\* variant: the sensor API is asked before the sensors command
_get_cpu_temperature_ApiFirst(sensor_names, sys) ==
    first_positive(<<_get_psutil_temperature(sys.psutil),
                     _get_sensors_temperature(sensor_names, sys.sensors),
                     _get_thermal_zone_temperature(sys.zones)>>)

\* _get_cpu_temperature: the sensors command, then the sensor API, then the
\* thermal zones
_get_cpu_temperature(sensor_names, sys) ==
    first_positive(<<_get_sensors_temperature(sensor_names, sys.sensors),
                     _get_psutil_temperature(sys.psutil),
                     _get_thermal_zone_temperature(sys.zones)>>)

(* ----------------------- inputs of the CPU probes --------------------- *)

\* most lines of the sensors output
MaxSensorLines == 3

\* most readings of one group of the sensor API
MaxReadings == 2

\* most thermal zones
MaxZones == 2

\* what the sensors command answers: it fails, it exits with an error, or
\* it prints some lines. The plan of a line says what the line is: the chip
\* it names, the reading it shows where a section is read (a line with
\* 'Core' or 'temp'), the reading it shows to the generic scan (a line with
\* 'Core' and a degree sign), and whether it closes a section.
SensorsRuns ==
    LET Lines ==
            { [text |-> text.chip_coretemp, chip |-> "coretemp",
               reading |-> <<>>, generic |-> <<>>, closes |-> FALSE],
              [text |-> text.chip_acpitz, chip |-> "acpitz",
               reading |-> <<>>, generic |-> <<>>, closes |-> FALSE],
              [text |-> text.line_core0, chip |-> "",
               reading |-> <<45000>>, generic |-> <<45000>>, closes |-> FALSE],
              [text |-> text.line_temp1, chip |-> "",
               reading |-> <<30500>>, generic |-> <<>>, closes |-> FALSE],
              [text |-> text.line_package, chip |-> "",
               reading |-> <<>>, generic |-> <<>>, closes |-> FALSE],
              [text |-> text.line_core_na, chip |-> "",
               reading |-> <<>>, generic |-> <<>>, closes |-> FALSE],
              [text |-> text.line_fan, chip |-> "",
               reading |-> <<>>, generic |-> <<>>, closes |-> TRUE],
              [text |-> text.line_core_spaced, chip |-> "",
               reading |-> <<51000>>, generic |-> <<51000>>, closes |-> FALSE],
              [text |-> text.line_core_zero, chip |-> "",
               reading |-> <<0>>, generic |-> <<0>>, closes |-> FALSE] }
        stdout(l) == join([k \in 1..Len(l) |-> l[k].text], <<"\n">>) \o <<"\n">>
    IN  {[given |-> Raised, plan |-> [ok |-> FALSE, lines |-> <<>>]]}
        \cup {[given |-> Return([returncode |-> c, stdout |-> stdout(l)]),
               plan |-> [ok |-> c = 0, lines |-> l]]
                : l \in SeqsUpTo(Lines, MaxSensorLines), c \in {0, 1}}

\* what psutil.sensors_temperatures() answers: it fails, or it gives groups
\* of readings under distinct names. The plan of a reading says whether its
\* label holds 'core' or 'package', the plan of a group whether its name
\* holds 'cpu'.
PsutilTemps ==
    LET Readings ==
            { [label |-> text.label_temp1, current |-> 38000, preferred |-> FALSE],
              [label |-> text.label_core, current |-> 42500, preferred |-> TRUE],
              [label |-> text.label_package, current |-> 50000, preferred |-> TRUE],
              [label |-> text.label_temp1, current |-> 0 - 5000, preferred |-> FALSE] }
        Groups ==
            [name : {text.coretemp}, cpu : {FALSE},
             sensors : SeqsUpTo(Readings, MaxReadings)]
            \cup [name : {text.k10temp}, cpu : {FALSE},
                  sensors : SeqsUpTo(Readings, MaxReadings)]
            \cup [name : {text.cpu_thermal}, cpu : {TRUE},
                  sensors : SeqsUpTo(Readings, MaxReadings)]
    IN  {Raised, Return(<<>>)}
        \cup {Return(<<g>>) : g \in Groups}
        \cup {Return(<<p[1], p[2]>>) :
                p \in {q \in Groups \X Groups : q[1].name # q[2].name}}

\* what /sys/class/thermal holds: listing it fails, or it lists zones. The
\* plan of a zone is the temperature it stands for, <<>> for a zone that
\* is not of the CPU, lacks a file, or holds no sane number.
ThermalZones ==
    LET Zones ==
            { [type |-> <<text.zone_x86>>, temp |-> <<text.milli_47000>>, plan |-> <<47000>>],
              [type |-> <<text.zone_cpu>>, temp |-> <<text.milli_47000>>, plan |-> <<47000>>],
              [type |-> <<text.zone_cpu>>, temp |-> <<text.milli_200000>>, plan |-> <<>>],
              [type |-> <<text.zone_cpu>>, temp |-> <<text.milli_0>>, plan |-> <<>>],
              [type |-> <<text.zone_cpu>>, temp |-> <<text.milli_neg>>, plan |-> <<>>],
              [type |-> <<text.zone_x86>>, temp |-> <<text.milli_bad>>, plan |-> <<>>],
              [type |-> <<text.zone_acpitz>>, temp |-> <<text.milli_47000>>, plan |-> <<>>],
              [type |-> <<>>, temp |-> <<text.milli_47000>>, plan |-> <<>>],
              [type |-> <<text.zone_cpu>>, temp |-> <<>>, plan |-> <<>>] }
    IN  {Raised} \cup {Return(z) : z \in SeqsUpTo(Zones, MaxZones)}

\* the calls of _get_cpu_temperature: the default sensor name, and the
\* three sources each answering with at most one line, one reading or one
\* zone, or the sensor API with two readings of coretemp
CpuCalls ==
    [sensor_names : {<<>>},
     sensors : {r \in SensorsRuns : Len(r.plan.lines) <= 1}
               \cup {r \in SensorsRuns :
                        /\ Len(r.plan.lines) = 2
                        /\ r.plan.lines[1].chip = "coretemp"
                        /\ r.plan.lines[2].reading # <<>>},
     psutil : {t \in PsutilTemps :
                 \/ t.raised
                 \/ Len(t.value) = 0
                 \/ Len(t.value) = 1 /\ Len(t.value[1].sensors) <= 1
                 \/ Len(t.value) = 1 /\ t.value[1].name = text.coretemp},
     zones : {z \in ThermalZones : z.raised \/ Len(z.value) <= 1}]

(* ----------------------- MdadmCollector._format_size ------------------- *)

\* A byte count is written in base 1024, the most significant digit first
\* and not 0 unless the count is 0: <<1, 512>> is 1536 and <<1, 0, 0>> is
\* 1024 * 1024. Dividing by 1024 moves the point one digit to the left,
\* which is what the float division does, exactly, to a count below 2^53.

\* most base-1024 digits of a byte count
MaxLimbs == 7

\* the value of a run of base-1024 digits
RECURSIVE value(_)
value(limbs) ==
    IF limbs = <<>> THEN 0
    ELSE value(SubSeq(limbs, 1, Len(limbs) - 1)) * 1024 + limbs[Len(limbs)]

\* str(n) of a natural number
RECURSIVE decimal(_)
decimal(n) ==
    LET numerals == <<"0", "1", "2", "3", "4", "5", "6", "7", "8", "9">>
    IN  IF n < 10 THEN <<numerals[n + 1]>>
        ELSE decimal(n \div 10) \o <<numerals[(n % 10) + 1]>>

\* units
units == <<<<"B">>, <<"K", "B">>, <<"M", "B">>, <<"G", "B">>, <<"T", "B">>, <<"P", "B">>>>

\* while size >= 1024 and unit_index < len(units) - 1: size is whole with
\* fraction after the point
RECURSIVE scale(_, _, _)
scale(whole, fraction, unit_index) ==
    IF Len(whole) > 1 /\ unit_index < Len(units) - 1
    THEN scale(SubSeq(whole, 1, Len(whole) - 1),
               <<whole[Len(whole)]>> \o fraction,
               unit_index + 1)
    ELSE [whole |-> whole, fraction |-> fraction, unit_index |-> unit_index]

\* ten times a fraction: the digit before the point (carry) and the
\* fraction after it
RECURSIVE times_ten(_)
times_ten(fraction) ==
    IF fraction = <<>> THEN [carry |-> 0, fraction |-> <<>>]
    ELSE LET tail == times_ten(Tail(fraction))
             v == Head(fraction) * 10 + tail.carry
         IN  [carry |-> v \div 1024, fraction |-> <<v % 1024>> \o tail.fraction]

\* f"{size:.1f}": the decimal digits of size rounded to one decimal place,
\* a tie going to the even digit
one_decimal(whole, fraction) ==
    LET shifted == times_ten(fraction)
        rest == shifted.fraction
        more == \E k \in 2..Len(rest) : rest[k] # 0
        up == IF rest = <<>> THEN 0
              ELSE IF rest[1] > 512 \/ (rest[1] = 512 /\ more) THEN 1
              ELSE IF rest[1] = 512 /\ shifted.carry % 2 = 1 THEN 1
              ELSE 0
        tenth == shifted.carry + up
    IN  decimal(value(whole) + tenth \div 10) \o <<".">> \o decimal(tenth % 10)

\* _format_size
_format_size(size_bytes) ==
    IF size_bytes = <<0>> THEN <<"0", "B">>
    ELSE LET size == scale(size_bytes, <<>>, 0)
         IN  IF size.unit_index = 0
             THEN decimal(value(size.whole)) \o units[size.unit_index + 1]
             ELSE one_decimal(size.whole, size.fraction) \o units[size.unit_index + 1]

\* the byte counts formatted: every count below 1024, and larger ones of up
\* to MaxLimbs digits, the digits after the second all alike
FormatSizes ==
    {<<n>> : n \in 0..1023}
    \cup UNION {
        { <<top, second>> \o [k \in 1..(n - 2) |-> rest]
            : top \in {1, 9, 512, 1023},
              second \in {0, 51, 52, 256, 512, 768, 972, 973, 1023},
              rest \in {0, 1, 1023} }
        : n \in 2..MaxLimbs }

(* ------------------ StorageCollector._discover_zfs_pools -------------- *)

\* _discover_zfs_pools: the names 'zpool list -H -o name' prints, one on a
\* line; [] when the command fails, times out or is not found
_discover_zfs_pools(run) ==
    IF run.raised \/ run.returncode # 0
    THEN <<>>
    ELSE LET filled(pool) == strip(pool) # <<>>
             pools == SelectSeq(split_on(strip(run.stdout), {"\n"}), filled)
         IN  [i \in 1..Len(pools) |-> strip(pools[i])]

\* variant: pools = self._discover_zfs_pools() only if self.zfs_auto_discover
_collect_zfs_pools_NoFallback(self, sys) ==
    IF ~sys.available
    THEN [discovery |-> FALSE, pools |-> <<>>]
    ELSE IF self.zfs_auto_discover
    THEN [discovery |-> TRUE, pools |-> _discover_zfs_pools(sys.list)]
    ELSE [discovery |-> FALSE, pools |-> self.zfs_pools]

\* _collect_zfs, up to the loop over pools: the pools it is going to query,
\* and whether it ran the discovery
_collect_zfs_pools(self, sys) ==
    IF ~sys.available
    THEN [discovery |-> FALSE, pools |-> <<>>]
    ELSE IF self.zfs_auto_discover \/ self.zfs_pools = <<>>
    THEN [discovery |-> TRUE, pools |-> _discover_zfs_pools(sys.list)]
    ELSE [discovery |-> FALSE, pools |-> self.zfs_pools]

\* what 'zpool list -H -o name' answers, with the names it lists
ListRuns ==
    LET nl == <<"\n">>
        listed(stdout, names) ==
            [given |-> [raised |-> FALSE, returncode |-> 0, stdout |-> stdout],
             names |-> names]
    IN  { listed(text.tank \o nl \o text.backup \o nl, <<text.tank, text.backup>>),
          listed(text.backup \o nl \o text.tank \o nl, <<text.backup, text.tank>>),
          listed(text.tank \o nl, <<text.tank>>),
          listed(text.tank \o nl \o nl \o text.backup \o nl, <<text.tank, text.backup>>),
          listed(text.tank \o nl \o <<" ">> \o nl \o text.backup, <<text.tank, text.backup>>),
          listed(nl \o text.tank \o <<"\t">> \o nl, <<text.tank>>),
          listed(<<>>, <<>>),
          listed(nl, <<>>),
          [given |-> [raised |-> FALSE, returncode |-> 1, stdout |-> <<>>], names |-> <<>>],
          [given |-> [raised |-> TRUE, returncode |-> 0, stdout |-> <<>>], names |-> <<>>] }

\* zfs_pools and zfs_auto_discover of the configuration, whether 'zpool
\* version' succeeds, and the answer of the list command
ZfsCollects ==
    [self : [zfs_auto_discover : BOOLEAN,
             zfs_pools : {<<>>, <<text.tank>>, <<text.backup, text.tank>>}],
     available : BOOLEAN,
     list : ListRuns]

(* ------------------ TemperatureCollector.get_storage_health ----------- *)

\* most disk devices tried in self.hdd_devices
MaxDisks == 2

\* get_storage_health: "Problem" at the first existing device whose
\* 'sudo smartctl -H' exits with 0 and prints 'failed' or 'error' in any
\* letter case, "Healthy" when the loop ends; probes[i] is what
\* self.hdd_devices[i] answers
RECURSIVE get_storage_health(_)
get_storage_health(probes) ==
    IF probes = <<>>
    THEN "Healthy"
    ELSE LET device == Head(probes)
             result == device.sudo
             output == lower(result.stdout)
         IN  IF /\ device.exists
                /\ ~result.raised
                /\ result.returncode = 0
                /\ (contains(output, text.failed) \/ contains(output, text.error))
             THEN "Problem"
             ELSE get_storage_health(Tail(probes))

\* one disk device: whether its path exists, what 'sudo smartctl -H' and
\* 'smartctl -H' answer for it, and whether the self-assessment it reports
\* is a failure. smartctl sets bit 3 of its exit status when the disk is
\* failing; sudo exits with 1 when it may not run the command.
SmartProbes ==
    LET ran(returncode, stdout) ==
            [raised |-> FALSE, returncode |-> returncode, stdout |-> stdout]
        refused == ran(1, <<>>)
        timeout == [raised |-> TRUE, returncode |-> 0, stdout |-> <<>>]
        disk(exists, sudo, plain, reports_failure) ==
            [exists |-> exists, sudo |-> sudo, plain |-> plain,
             reports_failure |-> reports_failure]
    IN  { disk(FALSE, refused, refused, FALSE),
          disk(TRUE, ran(0, text.smart_passed), ran(0, text.smart_passed), FALSE),
          disk(TRUE, ran(0, text.smart_ok), ran(0, text.smart_ok), FALSE),
          disk(TRUE, ran(8, text.smart_failed), ran(8, text.smart_failed), TRUE),
          disk(TRUE, ran(0, text.smart_failed), ran(0, text.smart_failed), TRUE),
          disk(TRUE, refused, ran(0, text.smart_passed), FALSE),
          disk(TRUE, refused, ran(8, text.smart_failed), TRUE),
          disk(TRUE, refused, ran(0, text.smart_failed), TRUE),
          disk(TRUE, refused, refused, FALSE),
          disk(TRUE, timeout, timeout, FALSE) }

\* the devices of self.hdd_devices, in order
HealthCalls == SeqsUpTo(SmartProbes, MaxDisks)

(* ---------------- the pools of one StorageCollector.collect ----------- *)

\* MdadmCollector._discover_arrays: the md<number> at the start of each
\* line of /proc/mdstat that re.match(r'^(md\d+)\s*:', line) accepts
_discover_arrays(mdstat) ==
    IF ~mdstat.exists
    THEN <<>>
    ELSE LET named(line) ==
                 /\ line # <<>>
                 /\ ~startswith(line, text.Personalities)
                 /\ ~startswith(line, text.unused)
                 /\ is_array_line(line)
             group(line) ==
                 SubSeq(line, 1, CHOOSE d \in 3..Len(line) :
                                    /\ \A k \in 3..d : line[k] \in digits
                                    /\ (d = Len(line) \/ line[d + 1] \notin digits))
             lines == SelectSeq([i \in 1..Len(mdstat.lines) |-> strip(mdstat.lines[i])],
                                named)
         IN  [i \in 1..Len(lines) |-> group(lines[i])]

\* what the two backends list during one collect() of the collector self
\* on the system sys: the pools of _collect_zfs and the arrays of
\* MdadmCollector.collect, each queried by its name and kept unless the
\* query answers None
Sighting(self, sys) ==
    LET filled(info) == info # <<>>
        pools == _collect_zfs_pools(self, sys.zfs).pools
        pool_info == SelectSeq([i \in 1..Len(pools) |->
                                  _get_zfs_pool_info(pools[i], sys.zfs.info[pools[i]])],
                               filled)
        arrays == IF self.mdadm_auto_discover \/ self.mdadm_arrays = <<>>
                  THEN _discover_arrays(sys.mdadm.mdstat)
                  ELSE self.mdadm_arrays
        array_info == SelectSeq([i \in 1..Len(arrays) |->
                                   _get_array_info(arrays[i], sys.mdadm.mdstat)],
                                filled)
    IN  [zfs |-> [available |-> sys.zfs.available,
                  pools |-> [i \in 1..Len(pool_info) |->
                               [name |-> pool_info[i][1].name,
                                health |-> pool_info[i][1].health]]],
         mdadm |-> [available |-> sys.mdadm.available,
                    arrays |-> [i \in 1..Len(array_info) |->
                                  [name |-> array_info[i][1].name,
                                   raw_state |-> array_info[i][1].raw_state]]]]

\* a collector with its backends and explicit lists, and a system with the
\* pools tank and backup and the arrays md0 and md1
ConfiguredCollects ==
    LET names == {text.tank, text.backup}
        answers == {c \in ZpoolCalls :
                      /\ c.fields.size = <<"2", "T">>
                      /\ c.fields.capacity_pct = <<"7", "5", "%">>
                      /\ c.fields.health = text.ONLINE}
        infos == {f \in [names -> {c.result : c \in answers}] :
                    \A n \in names :
                       \E c \in answers : c.pool_name = n /\ c.result = f[n]}
        lists == {l.given : l \in {r \in ListRuns :
                                     r.names \in {<<text.tank, text.backup>>, <<text.tank>>}
                                     /\ Len(r.given.stdout) <= 12}}
        mdstats == {c.mdstat : c \in {a \in ArrayCalls :
                                        /\ a.array.state = text.active
                                        /\ a.array.raid_level = text.raid1
                                        /\ Len(a.array.members) = 1
                                        /\ a.array.more = <<>>}}
    IN  [self : [enabled : {TRUE},
                 storage_types : {{"zfs"}, {"mdadm"}, {"zfs", "mdadm"}},
                 zfs_auto_discover : BOOLEAN,
                 zfs_pools : {<<>>, <<text.tank>>, <<text.backup, text.tank>>,
                              <<text.tank, text.tank>>},
                 mdadm_auto_discover : BOOLEAN,
                 mdadm_arrays : {<<>>, <<text.md0>>, <<text.md0, text.md0>>}],
         sys : [zfs : [available : BOOLEAN, list : lists, info : infos],
                mdadm : [available : BOOLEAN, mdstat : mdstats]]]

(* ------------------- the collectors, one call each -------------------- *)

\* a collector operation is about to be called on what arg holds
CollectorsInit ==
    /\ Constructed
    /\ display = Unwatched
    /\ ret = <<>>
    /\ \/ /\ fn = "get_overall_storage_state"
          /\ arg \in [cfg : StorageConfigs, seen : Sightings]
       \/ /\ fn = "collect_all_data"
          /\ \E c \in StorageConfigs, v \in {"Healthy", "Problem", "Unknown"}, s \in Sightings :
                \E f \in {s, NoStorage} :
                    arg = [cfg |-> c, smart |-> v, first |-> f, second |-> s]
       \/ /\ fn = "TemperatureCollector.collect"
          /\ arg \in TemperatureCalls
       \/ /\ fn = "StorageCollector.collect"
          /\ arg \in [cfg : StorageConfigs, seen : Sightings]
       \/ /\ fn = "_get_active_interface"
          /\ arg \in [cfg : NetworkConfigs, net : SelectionNets]
       \/ /\ fn = "NetworkCollector.collect"
          /\ arg \in [cfg : NetworkConfigs, net : SelectionNets \cup LookupNets]
       \/ /\ fn \in {"_get_mac_address", "_get_ipv6_address"}
          /\ arg \in [net : LookupNets, interface : {"eth0"}]
       \/ /\ fn = "_get_array_info"
          /\ arg \in ArrayCalls
       \/ /\ fn = "_map_state"
          /\ arg \in RaidStates
       \/ /\ fn = "_get_zfs_pool_info"
          /\ arg \in ZpoolCalls
       \/ /\ fn = "_get_sensors_temperature"
          /\ arg \in [sensor_names : {<<>>, <<text.chip_coretemp>>, <<text.chip_acpitz, text.chip_coretemp>>},
                        sensors : SensorsRuns]
       \/ /\ fn = "_get_psutil_temperature"
          /\ arg \in [psutil : PsutilTemps]
       \/ /\ fn = "_get_cpu_temperature"
          /\ arg \in CpuCalls
       \/ /\ fn = "_format_size"
          /\ arg \in FormatSizes
       \/ /\ fn = "_collect_zfs"
          /\ arg \in ZfsCollects
       \/ /\ fn = "get_storage_health"
          /\ arg \in HealthCalls
       \/ /\ fn = "collect_configured"
          /\ arg \in ConfiguredCollects

Call_get_overall_storage_state ==
    /\ fn = "get_overall_storage_state"
    /\ ret = <<>>
    /\ ret' = <<get_overall_storage_state(arg.cfg, arg.seen)>>
    /\ UNCHANGED <<fn, arg, daemonVars>>

Call_collect_all_data ==
    /\ fn = "collect_all_data"
    /\ ret = <<>>
    /\ ret' = <<collect_all_data(arg.cfg, arg.smart, arg.first, arg.second)>>
    /\ UNCHANGED <<fn, arg, daemonVars>>

Call_TemperatureCollector_collect ==
    /\ fn = "TemperatureCollector.collect"
    /\ ret = <<>>
    /\ ret' = <<TemperatureCollector_collect(arg.cfg, arg.probes)>>
    /\ UNCHANGED <<fn, arg, daemonVars>>

Call_StorageCollector_collect ==
    /\ fn = "StorageCollector.collect"
    /\ ret = <<>>
    /\ ret' = <<StorageCollector_collect(arg.cfg, arg.seen)>>
    /\ UNCHANGED <<fn, arg, daemonVars>>

Call_get_active_interface ==
    /\ fn = "_get_active_interface"
    /\ ret = <<>>
    /\ ret' = <<_get_active_interface(arg.cfg, arg.net)>>
    /\ UNCHANGED <<fn, arg, daemonVars>>

Call_NetworkCollector_collect ==
    /\ fn = "NetworkCollector.collect"
    /\ ret = <<>>
    /\ ret' = <<NetworkCollector_collect(arg.cfg, arg.net)>>
    /\ UNCHANGED <<fn, arg, daemonVars>>

Call_get_mac_address ==
    /\ fn = "_get_mac_address"
    /\ ret = <<>>
    /\ ret' = <<_get_mac_address(arg.net, arg.interface)>>
    /\ UNCHANGED <<fn, arg, daemonVars>>

Call_get_ipv6_address ==
    /\ fn = "_get_ipv6_address"
    /\ ret = <<>>
    /\ ret' = <<_get_ipv6_address(arg.net, arg.interface)>>
    /\ UNCHANGED <<fn, arg, daemonVars>>

Call_get_array_info ==
    /\ fn = "_get_array_info"
    /\ ret = <<>>
    /\ ret' = <<_get_array_info(arg.array_name, arg.mdstat)>>
    /\ UNCHANGED <<fn, arg, daemonVars>>

Call_map_state ==
    /\ fn = "_map_state"
    /\ ret = <<>>
    /\ ret' = <<_map_state(arg)>>
    /\ UNCHANGED <<fn, arg, daemonVars>>

Call_get_zfs_pool_info ==
    /\ fn = "_get_zfs_pool_info"
    /\ ret = <<>>
    /\ ret' = <<_get_zfs_pool_info(arg.pool_name, arg.result)>>
    /\ UNCHANGED <<fn, arg, daemonVars>>

Call_get_sensors_temperature ==
    /\ fn = "_get_sensors_temperature"
    /\ ret = <<>>
    /\ ret' = <<_get_sensors_temperature(arg.sensor_names, arg.sensors.given)>>
    /\ UNCHANGED <<fn, arg, daemonVars>>

Call_get_psutil_temperature ==
    /\ fn = "_get_psutil_temperature"
    /\ ret = <<>>
    /\ ret' = <<_get_psutil_temperature(arg.psutil)>>
    /\ UNCHANGED <<fn, arg, daemonVars>>

Call_get_cpu_temperature ==
    /\ fn = "_get_cpu_temperature"
    /\ ret = <<>>
    /\ ret' = <<_get_cpu_temperature(arg.sensor_names,
                   [sensors |-> arg.sensors.given, psutil |-> arg.psutil, zones |-> arg.zones])>>
    /\ UNCHANGED <<fn, arg, daemonVars>>

Call_format_size ==
    /\ fn = "_format_size"
    /\ ret = <<>>
    /\ ret' = <<_format_size(arg)>>
    /\ UNCHANGED <<fn, arg, daemonVars>>

Call_collect_zfs ==
    /\ fn = "_collect_zfs"
    /\ ret = <<>>
    /\ ret' = <<_collect_zfs_pools(arg.self, [available |-> arg.available, list |-> arg.list.given])>>
    /\ UNCHANGED <<fn, arg, daemonVars>>

Call_get_storage_health ==
    /\ fn = "get_storage_health"
    /\ ret = <<>>
    /\ ret' = <<get_storage_health(arg)>>
    /\ UNCHANGED <<fn, arg, daemonVars>>

Call_collect_configured ==
    /\ fn = "collect_configured"
    /\ ret = <<>>
    /\ ret' = <<StorageCollector_collect(arg.self, Sighting(arg.self, arg.sys))>>
    /\ UNCHANGED <<fn, arg, daemonVars>>

CollectorsNext ==
    \/ Call_get_overall_storage_state
    \/ Call_collect_all_data
    \/ Call_TemperatureCollector_collect
    \/ Call_StorageCollector_collect
    \/ Call_get_active_interface
    \/ Call_NetworkCollector_collect
    \/ Call_get_mac_address
    \/ Call_get_ipv6_address
    \/ Call_get_array_info
    \/ Call_map_state
    \/ Call_get_zfs_pool_info
    \/ Call_get_sensors_temperature
    \/ Call_get_psutil_temperature
    \/ Call_get_cpu_temperature
    \/ Call_format_size
    \/ Call_collect_zfs
    \/ Call_get_storage_health
    \/ Call_collect_configured

\* each collector operation called once, on every input within the bounds
SpecCollectors == CollectorsInit /\ [][CollectorsNext]_vars

\* the call of operation f has returned
Called(f) == fn = f /\ ret # <<>>
(* ------------------------------- C11 ---------------------------------- *)

\* C11 as stated: the snapshot's storage state is the verdict of
\* get_overall_storage_state whenever storage monitoring is enabled and that
\* verdict is not Unknown, and the SMART verdict in every other case.
C11_RicherWhenEnabled ==
    Called("collect_all_data") =>
        LET richer == get_overall_storage_state(arg.cfg, arg.second)
        IN  ret[1].storage_state =
                IF arg.cfg.enabled /\ richer # "Unknown" THEN richer ELSE arg.smart

\* C11 amended: the snapshot's storage state is the verdict of
\* get_overall_storage_state whenever storage monitoring and storage health
\* monitoring are both enabled and that verdict is not Unknown, and the
\* SMART verdict in every other case.
C11_RicherWhenHealthEnabled ==
    Called("collect_all_data") =>
        LET richer == get_overall_storage_state(arg.cfg, arg.second)
        IN  ret[1].storage_state =
                IF arg.cfg.enabled /\ arg.cfg.health_enabled /\ richer # "Unknown"
                THEN richer
                ELSE arg.smart

\* a degraded pool overrides a healthy SMART verdict
C11_Witness ==
    /\ Called("collect_all_data")
    /\ arg.cfg.enabled /\ arg.cfg.health_enabled
    /\ arg.smart = "Healthy"
    /\ ret[1].storage_state = "Problem"

(* ------------------------------- C12 ---------------------------------- *)

\* the kind and raw state of every pool collect() discovers
Discovered(cfg, seen) ==
    LET volumes == StorageCollector_collect(cfg, seen)
    IN  {<<volumes[i].type,
           IF volumes[i].type = "ZFS" THEN volumes[i].health ELSE volumes[i].raw_state>>
            : i \in 1..Len(volumes)}

\* the problem states of each backend's vocabulary, whatever the letter case
IsProblemState(kind, raw) ==
    \/ kind = "ZFS" /\ lower(raw) \in {lower(h) : h \in {text.DEGRADED, text.FAULTED, text.OFFLINE,
                                                         text.UNAVAIL, text.SUSPENDED}}
    \/ kind = "MDADM" /\ lower(raw) \in {text.degraded, text.failed, text.inactive, text.recovering, text.resyncing}

ExpectedOverall(cfg, seen) ==
    IF Discovered(cfg, seen) = {} THEN "Unknown"
    ELSE IF \E d \in Discovered(cfg, seen) : IsProblemState(d[1], d[2]) THEN "Problem"
    ELSE "Healthy"

Reverse(s) == [i \in 1..Len(s) |-> s[Len(s) + 1 - i]]

Reversed(seen) ==
    [zfs |-> [seen.zfs EXCEPT !.pools = Reverse(seen.zfs.pools)],
     mdadm |-> [seen.mdadm EXCEPT !.arrays = Reverse(seen.mdadm.arrays)]]

\* C12 as stated: get_overall_storage_state returns Unknown when no pool is
\* discovered, Problem when a discovered pool is in a problem state of its
\* backend, Healthy otherwise.
C12_Overall ==
    Called("get_overall_storage_state") => ret[1] = ExpectedOverall(arg.cfg, arg.seen)

\* C12 amended: with storage monitoring and storage health monitoring both
\* enabled, get_overall_storage_state returns Unknown when no pool is
\* discovered, Problem when a discovered pool is in a problem state of its
\* backend, Healthy otherwise, and the same for the pools in reverse order;
\* with either disabled it returns Healthy.
C12_OverallWhenEnabled ==
    Called("get_overall_storage_state") =>
        IF arg.cfg.enabled /\ arg.cfg.health_enabled
        THEN /\ ret[1] = ExpectedOverall(arg.cfg, arg.seen)
             /\ ret[1] = get_overall_storage_state(arg.cfg, Reversed(arg.seen))
        ELSE ret[1] = "Healthy"

\* a healthy pool listed before a resyncing array
C12_Witness ==
    /\ Called("get_overall_storage_state")
    /\ arg.cfg.enabled /\ arg.cfg.health_enabled
    /\ arg.cfg.storage_types = {"zfs", "mdadm"}
    /\ arg.seen.zfs.available /\ arg.seen.mdadm.available
    /\ Len(arg.seen.zfs.pools) = 1 /\ arg.seen.zfs.pools[1].health = text.ONLINE
    /\ Len(arg.seen.mdadm.arrays) = 1 /\ arg.seen.mdadm.arrays[1].raw_state = text.resyncing
    /\ ret[1] = "Problem"

(* ------------------------------- C13 ---------------------------------- *)

\* C13: for every configured slot count N and at most N configured devices,
\* collect returns the key system and exactly the keys hdd1..hddN, slot i
\* holding the reading of the i-th configured device, and 0.0 where the
\* probe failed or no device is configured.
C13_SlotsAsConfigured ==
    Called("TemperatureCollector.collect") =>
        /\ Len(ret[1].hdd) = arg.cfg.max_hdds
        /\ \A i \in 1..Len(ret[1].hdd) :
              ret[1].hdd[i] =
                  IF i <= Len(arg.cfg.hdd_devices) THEN arg.probes.disks[i] ELSE 0

(* ------------------------------- C14 ---------------------------------- *)

\* interface i is listed, its addresses can be read, and one of its IPv4
\* addresses is not the loopback address
Qualifies(net, i) ==
    /\ ~net.interfaces.raised
    /\ \E k \in 1..Len(net.interfaces.value) : net.interfaces.value[k] = i
    /\ i \in DOMAIN net.ifaddresses
    /\ ~net.ifaddresses[i].raised
    /\ \E k \in 1..Len(net.ifaddresses[i].value.inet) :
          net.ifaddresses[i].value.inet[k] \notin {"", "127.0.0.1"}

\* the interfaces in the order of preference of the specification
Preference(cfg, net) ==
    LET not_lo(i) == i # "lo"
    IN  <<cfg.primary_interface>> \o cfg.fallback_interfaces
        \o (IF net.interfaces.raised THEN <<>> ELSE SelectSeq(net.interfaces.value, not_lo))

NoneQualifies(cfg, net) ==
    \A k \in 1..Len(Preference(cfg, net)) : ~Qualifies(net, Preference(cfg, net)[k])

\* C14: whatever probes fail, NetworkCollector.collect returns, without
\* raising, a mapping with exactly the keys mac, ipv4 and ipv6, all empty
\* when no interface is active; StorageCollector.collect returns a list,
\* empty when storage monitoring is disabled or every backend fails.
C14_CollectorsReturn ==
    /\ Called("NetworkCollector.collect") =>
          /\ ~ret[1].raised
          /\ DOMAIN ret[1].value = {"mac", "ipv4", "ipv6"}
          /\ NoneQualifies(arg.cfg, arg.net) =>
                /\ ret[1].value.mac = <<>>
                /\ ret[1].value.ipv4 = ""
                /\ ret[1].value.ipv6 = <<>>
    /\ Called("StorageCollector.collect") =>
          /\ DOMAIN ret[1] = 1..Len(ret[1])
          /\ \/ ~arg.cfg.enabled
             \/ ~arg.seen.zfs.available /\ ~arg.seen.mdadm.available
             => Len(ret[1]) = 0

\* netifaces.interfaces() fails and collect still returns the empty identity
C14_Witness ==
    /\ Called("NetworkCollector.collect")
    /\ arg.net.interfaces.raised
    /\ ~ret[1].raised
    /\ ret[1].value.ipv4 = ""

(* ------------------------------- C15 ---------------------------------- *)

\* C15: the active interface is the first one, in the order primary,
\* fallbacks as listed, system interfaces other than lo, that has a
\* non-loopback IPv4 address; when there is none, no interface is chosen and
\* collect returns the all-empty identity.
C15_Selection ==
    /\ Called("_get_active_interface") =>
          LET order == Preference(arg.cfg, arg.net)
          IN  IF NoneQualifies(arg.cfg, arg.net)
              THEN ret[1] = None
              ELSE \E k \in 1..Len(order) :
                      /\ ret[1] = order[k]
                      /\ Qualifies(arg.net, order[k])
                      /\ \A j \in 1..(k - 1) : ~Qualifies(arg.net, order[j])
    /\ Called("NetworkCollector.collect") /\ NoneQualifies(arg.cfg, arg.net) =>
          ret[1].value = [mac |-> <<>>, ipv4 |-> "", ipv6 |-> <<>>]

\* the primary interface is chosen although a fallback is active too
C15_Witness ==
    /\ Called("_get_active_interface")
    /\ Qualifies(arg.net, arg.cfg.primary_interface)
    /\ Qualifies(arg.net, arg.cfg.fallback_interfaces[1])
    /\ arg.cfg.fallback_interfaces[1] # arg.cfg.primary_interface
    /\ ret[1] = arg.cfg.primary_interface

(* ------------------------------- C16 ---------------------------------- *)

\* an address without its zone suffix
BeforeZone(a) ==
    CHOOSE p \in {SubSeq(a, 1, n) : n \in 0..Len(a)} :
        /\ \A i \in 1..Len(p) : p[i] # "%"
        /\ Len(p) = Len(a) \/ a[Len(p) + 1] = "%"

IsLoopback6(a) == BeforeZone(a) = <<":", ":", "1">>

IsLinkLocal6(a) == Len(a) >= 4 /\ <<a[1], a[2], a[3], a[4]>> = <<"f", "e", "8", "0">>

Reportable6(a) == a # <<>> /\ ~IsLoopback6(a) /\ ~IsLinkLocal6(a)

\* the IPv6 addresses bound to the interface, in order
Bound6(net, i) ==
    IF i \in DOMAIN net.ifaddresses /\ ~net.ifaddresses[i].raised
    THEN net.ifaddresses[i].value.inet6
    ELSE <<>>

\* C16: the reported IPv6 address is the first bound address that is
\* neither loopback nor link-local, without its zone suffix; it is never
\* link-local and carries no '%'; it is empty when there is no such address.
C16_FirstGlobalIpv6 ==
    Called("_get_ipv6_address") =>
        LET bound == Bound6(arg.net, arg.interface)
        IN  /\ ~IsLinkLocal6(ret[1])
            /\ \A i \in 1..Len(ret[1]) : ret[1][i] # "%"
            /\ IF \E k \in 1..Len(bound) : Reportable6(bound[k])
               THEN \E k \in 1..Len(bound) :
                       /\ Reportable6(bound[k])
                       /\ \A j \in 1..(k - 1) : ~Reportable6(bound[j])
                       /\ ret[1] = BeforeZone(bound[k])
               ELSE ret[1] = <<>>

\* a zoned link-local address is skipped and a zoned global one is reported
\* without its zone
C16_Witness ==
    /\ Called("_get_ipv6_address")
    /\ Bound6(arg.net, arg.interface) = <<text.ip6_link_local_zone, text.ip6_global_zone>>
    /\ ret[1] = <<"2", "0", "0", "1", ":", ":", "2">>

(* ------------------------------- C17 ---------------------------------- *)

\* the link-layer addresses of the interface, in order
LinkTable(net, i) ==
    IF i \in DOMAIN net.ifaddresses /\ ~net.ifaddresses[i].raised
    THEN net.ifaddresses[i].value.link
    ELSE <<>>

IsMac(a) == \E i \in 1..Len(a) : a[i] = ":"

\* a text without its blanks and line ends
Visible(a) == LET shown(c) == c \notin {" ", "\t", "\n"} IN SelectSeq(a, shown)

\* where the specification takes the MAC address from
MacSource(net, i) ==
    LET table == LinkTable(net, i)
    IN  IF \E k \in 1..Len(table) : IsMac(table[k])
        THEN table[CHOOSE k \in 1..Len(table) :
                      IsMac(table[k]) /\ \A j \in 1..(k - 1) : ~IsMac(table[j])]
        ELSE IF i \in DOMAIN net.address_file THEN Visible(net.address_file[i])
        ELSE <<>>

\* C17: the reported MAC address is the address of the link-layer table
\* when it has one, else the content of the interface's address file, else
\* empty; it has no lowercase letter and differs from its source in letter
\* case only.
C17_MacUppercase ==
    Called("_get_mac_address") =>
        LET source == MacSource(arg.net, arg.interface)
        IN  /\ Len(ret[1]) = Len(source)
            /\ \A i \in 1..Len(ret[1]) :
                  /\ ret[1][i] = upper_ch(ret[1][i])
                  /\ lower_ch(ret[1][i]) = lower_ch(source[i])

\* the table has no MAC address and the file's content is reported in
\* uppercase
C17_Witness ==
    /\ Called("_get_mac_address")
    /\ LinkTable(arg.net, arg.interface) = <<text.mac_no_colon>>
    /\ "eth0" \in DOMAIN arg.net.address_file
    /\ arg.net.address_file["eth0"] = text.file_mixed
    /\ ret[1] = <<"A", "A", ":", "B", "2">>

(* ------------------------------- C18 ---------------------------------- *)

\* the keywords found in the continuation lines of the array
Keywords(a) == UNION {a.more[k].keywords : k \in 1..Len(a.more)}

\* the state each keyword stands for
Overriding(k) ==
    CASE k = "recovery" -> text.recovering
      [] k = "resync" -> text.resyncing
      [] k = "degraded" -> text.degraded
      [] k = "failed" -> text.failed

\* the members of the array in listed order, each without its [slot]
MemberNames(a) ==
    join([k \in 1..Len(a.members) |-> a.members[k].device \o a.members[k].flag], <<",">>)

\* C18: for an array described as 'name : state level dev[slot] ...', without
\* a keyword in its continuation lines the raw state is the state token and
\* the devices are the members in listed order without their [slot]
\* annotations, an active array being Healthy; with keywords, the raw state
\* is the state one of them stands for, and that state when there is one
\* keyword only.
C18_ArrayBlock ==
    Called("_get_array_info") =>
        /\ ret[1] # <<>>
        /\ IF Keywords(arg.array) = {}
           THEN /\ ret[1][1].raw_state = arg.array.state
                /\ ret[1][1].devices = MemberNames(arg.array)
                /\ arg.array.state = text.active => ret[1][1].state = text.Healthy
           ELSE /\ \E k \in Keywords(arg.array) : ret[1][1].raw_state = Overriding(k)
                /\ \A k \in Keywords(arg.array) :
                      Keywords(arg.array) = {k} => ret[1][1].raw_state = Overriding(k)

\* an active array with two members and no keyword, listed after another
\* array
C18_Witness ==
    /\ Called("_get_array_info")
    /\ arg.array.state = text.active
    /\ Len(arg.array.members) = 2
    /\ Len(arg.array.more) = 1 /\ Keywords(arg.array) = {}
    /\ Len(arg.mdstat.lines) > 5
    /\ ret[1][1].state = text.Healthy
    /\ ret[1][1].devices = <<"s", "d", "b", "1", ",", "s", "d", "a", "1">>

(* ------------------------------- C19 ---------------------------------- *)

\* the normalized state of each known raw state
NormalizedRaidState ==
    { <<text.active, text.Healthy>>, <<text.clean, text.Healthy>>, <<text.degraded, text.Degraded>>,
      <<text.recovering, text.Recovering>>, <<text.resyncing, text.Resyncing>>, <<text.failed, text.Failed>>,
      <<text.inactive, text.Offline>>, <<text.spare, text.Spare>> }

\* the same text but for the letter case
SameButCase(s, t) ==
    /\ Len(s) = Len(t)
    /\ \A i \in 1..Len(s) : lower_ch(s[i]) = lower_ch(t[i])

\* t is s with every first letter of a run of letters in upper case and the
\* other letters in lower case
IsTitleCased(t, s) ==
    /\ SameButCase(t, s)
    /\ \A i \in 1..Len(t) :
          IF i > 1 /\ isalpha(s[i - 1])
          THEN t[i] = lower_ch(t[i])
          ELSE t[i] = upper_ch(t[i])

\* C19: _map_state maps every known raw state, in any letter case, to its
\* normalized state, and returns every other input title-cased.
C19_MapState ==
    Called("_map_state") =>
        IF \E kv \in NormalizedRaidState : SameButCase(arg, kv[1])
        THEN \A kv \in NormalizedRaidState : SameButCase(arg, kv[1]) => ret[1] = kv[2]
        ELSE IsTitleCased(ret[1], arg)

\* a known state in mixed case
C19_Witness ==
    /\ Called("_map_state")
    /\ arg = <<"R", "e", "S", "y", "n", "c", "I", "N", "G">>
    /\ ret[1] = text.Resyncing

(* ------------------------------- C20 ---------------------------------- *)

\* the normalized state of each health value of the ZFS vocabulary
NormalizedZfsState ==
    { <<text.ONLINE, text.Healthy>>, <<text.DEGRADED, text.Degraded>>, <<text.FAULTED, text.Failed>>,
      <<text.OFFLINE, text.Offline>>, <<text.REMOVED, text.Removed>>, <<text.UNAVAIL, text.Unavailable>>,
      <<text.SUSPENDED, text.Suspended>> }

\* a text without the percent signs at its end
RECURSIVE WithoutPercent(_)
WithoutPercent(s) ==
    IF s # <<>> /\ s[Len(s)] = "%" THEN WithoutPercent(SubSeq(s, 1, Len(s) - 1)) ELSE s

\* C20: when the detail query answers with the six fields, the pool is not
\* dropped; its name is the name field, its capacity the size field, its
\* usage the capacity-percent followed by exactly one '%', its state the
\* normalized state of a health value of the vocabulary and the health
\* value itself when that is no word of the vocabulary.
C20_ZfsPool ==
    Called("_get_zfs_pool_info") /\ arg.result.returncode = 0 =>
        /\ ret[1] # <<>>
        /\ ret[1][1].name = arg.fields.name
        /\ ret[1][1].capacity = arg.fields.size
        /\ ret[1][1].usage = WithoutPercent(arg.fields.capacity_pct) \o <<"%">>
        /\ \A kv \in NormalizedZfsState :
              arg.fields.health = kv[1] => ret[1][1].state = kv[2]
        /\ (\A kv \in NormalizedZfsState : ~SameButCase(arg.fields.health, kv[1]))
               => ret[1][1].state = arg.fields.health

\* a pool whose health is no word of the vocabulary is kept
C20_Witness ==
    /\ Called("_get_zfs_pool_info")
    /\ arg.result.returncode = 0
    /\ arg.fields.health = text.WEIRD
    /\ arg.fields.capacity_pct = <<"7", "5">>
    /\ ret[1] # <<>>
    /\ ret[1][1].state = text.WEIRD
    /\ ret[1][1].usage = <<"7", "5", "%">>

(* ------------------------------- C21 ---------------------------------- *)

\* the chip a configured sensor name stands for
ChipOf(sensor_name) ==
    IF sensor_name = text.chip_coretemp THEN "coretemp" ELSE "acpitz"

\* line k of the planned output lies in a section of the chip: a line
\* before it names the chip, and no line between the two closes the section
InSection(chip, lines, k) ==
    \E j \in 1..(k - 1) :
        /\ lines[j].chip = chip
        /\ \A m \in (j + 1)..(k - 1) : ~lines[m].closes

\* the lines of the planned output whose reading the named probe takes
NamedReadings(chip, lines) ==
    {k \in 1..Len(lines) :
        lines[k].chip # chip /\ InSection(chip, lines, k) /\ lines[k].reading # <<>>}

\* the smallest number of a non-empty set of numbers
Least(S) == CHOOSE k \in S : \A m \in S : k <= m

\* what the planned run of the sensors command yields: the first reading
\* in a section of the first configured chip that has one, else the first
\* Core reading with a degree sign anywhere, else nothing (0.0)
SensorsYield(sensor_names, plan) ==
    LET chips == IF sensor_names = <<>> THEN <<"coretemp">>
                 ELSE [i \in 1..Len(sensor_names) |-> ChipOf(sensor_names[i])]
        with_reading == {i \in 1..Len(chips) : NamedReadings(chips[i], plan.lines) # {}}
        generic == {k \in 1..Len(plan.lines) : plan.lines[k].generic # <<>>}
    IN  IF ~plan.ok THEN 0
        ELSE IF with_reading # {}
        THEN plan.lines[Least(NamedReadings(chips[Least(with_reading)], plan.lines))].reading[1]
        ELSE IF generic # {} THEN plan.lines[Least(generic)].generic[1]
        ELSE 0

\* what the planned answer of the sensor API yields: in the group coretemp
\* the first reading labelled core or package, else its first reading;
\* without that group the first reading of the first filled group named
\* after the CPU, else of the first filled group; else nothing (0.0)
PsutilYield(temps) ==
    IF temps.raised THEN 0
    ELSE LET groups == temps.value
             core == {g \in 1..Len(groups) : groups[g].name = text.coretemp}
             cpu == {g \in 1..Len(groups) : groups[g].cpu /\ groups[g].sensors # <<>>}
             filled == {g \in 1..Len(groups) : groups[g].sensors # <<>>}
             preferred(s) == {k \in 1..Len(s) : s[k].preferred}
         IN  IF core # {}
             THEN LET s == groups[Least(core)].sensors
                  IN  IF preferred(s) # {} THEN s[Least(preferred(s))].current
                      ELSE IF s # <<>> THEN s[1].current
                      ELSE 0
             ELSE IF cpu # {} THEN groups[Least(cpu)].sensors[1].current
             ELSE IF filled # {} THEN groups[Least(filled)].sensors[1].current
             ELSE 0

\* what the planned thermal zones yield: the temperature of the first
\* zone that stands for one, else nothing (0.0)
ZonesYield(zones) ==
    IF zones.raised THEN 0
    ELSE LET good == {k \in 1..Len(zones.value) : zones.value[k].plan # <<>>}
         IN  IF good # {} THEN zones.value[Least(good)].plan[1] ELSE 0

NumberPart(formatted, unit) == SubSeq(formatted, 1, Len(formatted) - Len(unit))

\* C22: format_size gives '0B' for 0; for a count below 1024 the count as
\* an integer followed by 'B', without a decimal point; for a count of 1024
\* or more a number with exactly one decimal place followed by the unit
\* KB, MB, GB, TB or PB that 1024-based scaling selects, the number being
\* below 1024 for every unit except PB; 1536 gives '1.5KB' and 1024 * 1024
\* gives '1.0MB'.
C22_FormatSize ==
    Called("_format_size") =>
        LET unit == units[Min(Len(arg) - 1, 5) + 1]
            number == NumberPart(ret[1], unit)
        IN  /\ endswith(ret[1], unit)
            /\ arg = <<0>> => ret[1] = <<"0", "B">>
            /\ Len(arg) = 1 =>
                  /\ "." \notin Range(ret[1])
                  /\ number = decimal(arg[1])
            /\ Len(arg) > 1 =>
                  /\ Len(number) >= 3
                  /\ number[Len(number) - 1] = "."
                  /\ number[Len(number)] \in digits
                  /\ \A k \in 1..(Len(number) - 2) : number[k] \in digits
                  /\ unit # <<"P", "B">> =>
                        natural(SubSeq(number, 1, Len(number) - 2)) < 1024
            /\ arg = <<1, 512>> => ret[1] = <<"1", ".", "5", "K", "B">>
            /\ arg = <<1, 0, 0>> => ret[1] = <<"1", ".", "0", "M", "B">>

(* ------------------------------- C23 ---------------------------------- *)

\* C23: send_command never writes on an open connection whose buffer reset
\* did not complete: whenever a path is about to write under the lock on
\* an open connection, connect() has discarded the stale input and output
\* of that connection, also after a connect() that failed part-way.
C23_WriteAfterReset ==
    \A p \in Paths :
        op[p] = "w_body" /\ lock = p /\ IsOpen => connection.reset

(* ------------------------------- C24 ---------------------------------- *)

\* the health aggregation of a pool sequence: Unknown for no pool, Problem
\* when a pool is in a problem state of its backend, Healthy otherwise
AggregateOf(pools) ==
    IF pools = <<>> THEN "Unknown"
    ELSE IF \E i \in 1..Len(pools) :
               IsProblemState(pools[i].type,
                              IF pools[i].type = "ZFS" THEN pools[i].health
                              ELSE pools[i].raw_state)
    THEN "Problem"
    ELSE "Healthy"

\* C24: whenever the storage state of a snapshot comes from the health
\* check of the storage source (storage and storage health monitoring are
\* enabled and the check's verdict is not Unknown), it is the health
\* aggregation of the pool sequence of that snapshot, also when the backends
\* change between the two queries of one cycle.
C24_SameObservation ==
    /\ Called("collect_all_data")
    /\ arg.cfg.enabled /\ arg.cfg.health_enabled
    /\ get_overall_storage_state(arg.cfg, arg.second) # "Unknown"
    => ret[1].storage_state = AggregateOf(ret[1].pools)

(* ------------------------------- C25 ---------------------------------- *)

\* C25: whenever run() has returned, after the loop ended or after the
\* initial connectivity check failed, the serial connection is closed.
C25_ClosedOnReturn == Terminated => ~IsOpen

(* ------------------------------- C26 ---------------------------------- *)

\* C26: the device clearing its pool list on POOL:RESET and appending on
\* each POOL line, at the end of every cycle whose commands were all
\* delivered the device shows that cycle's pool sequence: no pool of an
\* earlier cycle and none of the startup connectivity test.
C26_DeviceShowsCycle ==
    pc = "scu_return" /\ scu_caller = "cycle" /\ success => display.pools = data.pools

(* ------------------------------- C27 ---------------------------------- *)

\* C27 as stated, where 'zpool version' succeeds: with auto-discovery
\* disabled the pools queried are the configured explicit list and no
\* discovery ran; with auto-discovery enabled they are the names the list
\* command returned
C27_ExplicitUnlessAuto ==
    Called("_collect_zfs") /\ arg.available =>
        IF arg.self.zfs_auto_discover
        THEN ret[1].pools = arg.list.names
        ELSE ret[1].pools = arg.self.zfs_pools /\ ~ret[1].discovery

\* C27 amended: where 'zpool version' succeeds, the pools queried are the
\* configured explicit list, with no discovery run, when auto-discovery is
\* disabled and the list is not empty; in every other case the discovery
\* runs and they are the names the list command returned, in output order
\* and without blank entries. Where it fails nothing is queried or run.
C27_ExplicitIfGiven ==
    Called("_collect_zfs") =>
        IF ~arg.available
        THEN ret[1].pools = <<>> /\ ~ret[1].discovery
        ELSE IF ~arg.self.zfs_auto_discover /\ arg.self.zfs_pools # <<>>
        THEN ret[1].pools = arg.self.zfs_pools /\ ~ret[1].discovery
        ELSE ret[1].pools = arg.list.names /\ ret[1].discovery

\* auto-discovery is disabled, no pool is configured, and the pools the
\* list command names are queried
C27_Witness ==
    /\ Called("_collect_zfs")
    /\ arg.available
    /\ ~arg.self.zfs_auto_discover
    /\ arg.self.zfs_pools = <<>>
    /\ ret[1].discovery
    /\ ret[1].pools = <<text.tank, text.backup>>

(* ------------------------------- C28 ---------------------------------- *)

\* C28: get_storage_health returns "Problem" when at least one configured
\* device that exists reports a SMART self-assessment failure, whatever the
\* exit status of the query and whichever invocation reached the device,
\* and "Healthy" when none does
C28_ProblemOnFailure ==
    Called("get_storage_health") =>
        ret[1] = IF \E i \in 1..Len(arg) : arg[i].exists /\ arg[i].reports_failure
                 THEN "Problem"
                 ELSE "Healthy"

(* ------------------------------- C29 ---------------------------------- *)

\* C29: no two pools of the pool sequence of a snapshot have the same name,
\* whatever backends and explicit pool and array lists are configured
C29_UniqueNames ==
    Called("collect_configured") =>
        \A i, j \in 1..Len(ret[1]) : i # j => ret[1][i].name # ret[1][j].name

(* ------------------------------- C30 ---------------------------------- *)

\* positions of a path in front of 'with self.lock:' and inside the block
Acquiring == {"ic_acq", "c_acq", "w_acq", "d_acq"}

Holding == {"ic_body", "c_body", "w_body", "d_body"}

\* C30: no path reaches 'with self.lock:' while it holds the lock; a path
\* holds the lock exactly while it is inside a with block, so every exit,
\* returning or raising, has released it; and whenever a path waits for
\* the lock, its holder can take a step, which releases it
C30_LockDiscipline ==
    /\ \A p \in Paths : op[p] \in Acquiring => lock # p
    /\ \A p \in Paths : lock = p <=> op[p] \in Holding
    /\ \A p \in Paths :
          op[p] \in Acquiring /\ lock # "free" =>
             /\ lock \in Paths \ {p}
             /\ ENABLED ClientStep(lock)

\* a write of send_command raised in path main, the with block was left,
\* and main is inside disconnect's with block while aux waits for the lock
C30_Witness ==
    /\ call["main"] = "send_command"
    /\ op["main"] = "d_body"
    /\ lock = "main"
    /\ op["aux"] \in Acquiring

====
